---------------------------- MODULE Spec2Model ----------------------------
(***************************************************************************)
(* FileStreamBot: the /dl streaming path (range arithmetic, yield_file,    *)
(* the per-DC session pool) and the LRU+TTL cache, as state machines.      *)
(*                                                                         *)
(*   Spec       one /dl request of any range of any file, from the         *)
(*              resolved metadata to the end of its stream                 *)
(*   SpecLoad   concurrent streams on several clients, with every failure  *)
(*              of a stream, the socket-error handling and the cleaner     *)
(*   SpecPool   more concurrent streams than a pool may hold sessions, on  *)
(*              one client and one DC: the cap and the forced reuse        *)
(*   SpecCache  FileStream/utils/cache.py, one LRUCache instance           *)
(*   SpecBalancer  utils/load_balancer.py under any calls and any loads    *)
(*   SpecWindow    the response-time windows of the load balancer          *)
(*   SpecLimit     requests through the middleware chain, a burst period   *)
(*                 apart or together: the rate limiter                     *)
(*   SpecServe     /dl requests from the middleware chain to the end of    *)
(*                 the handler: metadata resolution, deadline, errors      *)
(***************************************************************************)
EXTENDS Integers, Sequences, FiniteSets, TLC

VARIABLES
    cache,      \* LRUCache.cache: the OrderedDict, oldest first, of [k, v]
    expiry,     \* LRUCache.expiry: key -> expiry instant, NoExpiry if absent
    lastOp,     \* history: the last cache operation and its result
    putRec,     \* history: per key, value and expiry instant of its latest put
    recency,    \* history: the cached keys by last use, least recent first
    work_loads,             \* FileStream.bot.work_loads: client -> streams
    sessions,               \* the media sessions created so far: [client, dc]
    session_pool,           \* ByteStreamer.session_pool, per client: dc -> list
    session_in_use,         \* ByteStreamer.session_in_use
    session_retry_count,    \* ByteStreamer.session_retry_count
    socket_errors,          \* ByteStreamer.socket_errors
    socket_error_cooldown,  \* ByteStreamer.socket_error_cooldown
    closing,    \* clean_sessions, per client: the sessions it has yet to close
    streams,    \* the /dl requests: media_streamer and its yield_file generator
    forced,     \* history: the sessions handed out by a forced reuse
    health_checks,      \* LoadBalancer.health_checks: client -> bool
    last_used_time,     \* LoadBalancer.last_used_time: client -> instant
    response_times,     \* LoadBalancer.response_times: client -> deque
    pushed,             \* history: per client, every response time recorded
    was_unhealthy,      \* history: the clients ever marked unhealthy
    lastPick,           \* history: the last get_client, its result and inputs
    request_timestamps, \* RateLimiter.request_timestamps: key -> instants
    cleanup_counter,    \* RateLimiter.cleanup_counter
    counted,            \* history: per key, the requests the limiter has judged
    failed_file_ids,    \* ByteStreamer.failed_file_ids, per client
    failure_cooldown,   \* ByteStreamer.failure_cooldown, per client: id -> instant
    cached_file_ids,    \* ByteStreamer.cached_file_ids, per client: the ids cached
    file_info_cache     \* cache.file_info_cache, an LRUCache

poolVars == <<sessions, session_pool, session_in_use, session_retry_count,
              socket_errors, socket_error_cooldown, closing, forced>>

streamVars == <<work_loads, streams>>

balancerVars == <<health_checks, last_used_time, response_times, pushed,
                  was_unhealthy, lastPick>>

limiterVars == <<request_timestamps, cleanup_counter, counted>>

resolverVars == <<failed_file_ids, failure_cooldown, cached_file_ids,
                  file_info_cache>>

serverVars == <<balancerVars, limiterVars, resolverVars>>

vars == <<cache, expiry, lastOp, putRec, recency, work_loads, sessions,
          session_pool, session_in_use, session_retry_count, socket_errors,
          socket_error_cooldown, closing, streams, forced, health_checks,
          last_used_time, response_times, pushed, was_unhealthy, lastPick,
          request_timestamps, cleanup_counter, counted, failed_file_ids,
          failure_cooldown, cached_file_ids, file_info_cache>>

cacheVars == <<cache, expiry, lastOp, putRec, recency>>

(***************************************************************************)
(* Bounds of the model.                                                    *)
(***************************************************************************)
max_size == 2       \* LRUCache(max_size=...), from the configuration
ttl == 1            \* LRUCache(ttl=...), from the configuration, seconds

(***************************************************************************)
(* Time.  Instants are kept in seconds relative to the current instant:    *)
(* time.time() is the origin, and a second that passes (Tick) moves every  *)
(* stored instant one second towards the past.  The code only ever         *)
(* compares a stored instant with time.time(), so instants already passed  *)
(* are all kept as Passed.                                                 *)
(***************************************************************************)
now == 0            \* time.time()
Passed == -1        \* an instant before time.time()

\* a stored instant after d seconds, instants before oldest being alike
Aged(instant, d, oldest) == IF instant - d < oldest THEN oldest ELSE instant - d

Age(instant) == Aged(instant, 1, Passed)

Keys == 1..(max_size + 1)   \* one key more than the cache holds
CustomTtls == {0}           \* set(k, v, ttl=0): shorter than the default, and falsy
Vals == {1, 2}      \* cached values: the cache never looks into them
NoExpiry == -2      \* key not in the expiry dict
None == 0           \* Python None (no value, no custom ttl given: see NoTtl)
NoTtl == -1         \* set(..., ttl=None)

(***************************************************************************)
(* LRUCache (cache.py).  A cache state is C = [cache, expiry].             *)
(***************************************************************************)
CacheKeys(c) == {c[i].k : i \in 1..Len(c)}

Lookup(c, key) == (CHOOSE i \in 1..Len(c) : c[i].k = key)

Without(c, key) == SelectSeq(c, LAMBDA e : e.k # key)

\* _remove_item: pop the key from both dicts, when present
_remove_item(C, key) ==
    [cache  |-> Without(C.cache, key),
     expiry |-> [C.expiry EXCEPT ![key] = NoExpiry]]

\* -- mutant: evicts the most recently used entry
_evict_newest(C) ==
    IF C.cache = <<>> THEN C
    ELSE _remove_item(C, C.cache[Len(C.cache)].k)

\* _evict_oldest: remove the first item of the ordered dict
_evict_oldest(C) ==
    IF C.cache = <<>> THEN C
    ELSE _remove_item(C, C.cache[1].k)

\* key in self.expiry and time.time() > self.expiry[key]
IsExpired(e, key, t) == e[key] # NoExpiry /\ t > e[key]

\* __contains__: [C |-> the cache after the call, ret |-> its result]
__contains__(C, key, t) ==
    IF key \notin CacheKeys(C.cache) THEN [C |-> C, ret |-> FALSE]
    ELSE IF IsExpired(C.expiry, key, t)
         THEN [C |-> _remove_item(C, key), ret |-> FALSE]
         ELSE [C |-> C, ret |-> TRUE]

\* __getitem__: ret is the value, or None for KeyError
__getitem__(C, key, t) ==
    LET in == __contains__(C, key, t) IN
    IF ~in.ret THEN [C |-> in.C, ret |-> None]
    ELSE LET value == in.C.cache[Lookup(in.C.cache, key)].v IN
         [C   |-> [in.C EXCEPT !.cache =
                       Append(Without(in.C.cache, key), [k |-> key, v |-> value])],
          ret |-> value]

\* the ordered dict after "pop if present, then insert at the end", before eviction
Inserted(C, key, value, t) ==
    [cache  |-> Append(Without(C.cache, key), [k |-> key, v |-> value]),
     expiry |-> [C.expiry EXCEPT ![key] = t + ttl]]

\* -- mutant: never evicts
__setitem__noevict(C, key, value, t) == Inserted(C, key, value, t)

\* __setitem__
__setitem__(C, key, value, t) ==
    LET ins == Inserted(C, key, value, t) IN
    IF Len(ins.cache) > max_size THEN _evict_oldest(ins) ELSE ins

\* get(key, default=None)
get(C, key, t) == __getitem__(C, key, t)

\* -- mutant: the custom ttl is ignored
set_default_ttl(C, key, value, custom, t) == __setitem__(C, key, value, t)

\* set(key, value, ttl=None)
set(C, key, value, custom, t) ==
    LET put == __setitem__(C, key, value, t) IN
    IF custom # NoTtl
    THEN [put EXCEPT !.expiry = [put.expiry EXCEPT ![key] = t + custom]]
    ELSE put

\* clear()
clear(C) == [cache |-> <<>>, expiry |-> [k \in Keys |-> NoExpiry]]

\* one pass of _cleanup_task after it wakes: remove every key of the expiry
\* dict whose instant has passed
RECURSIVE RemoveAll(_, _)
RemoveAll(C, ks) ==
    IF ks = {} THEN C
    ELSE LET key == CHOOSE x \in ks : TRUE IN
         RemoveAll(_remove_item(C, key), ks \ {key})

_cleanup_task(C, t) ==
    RemoveAll(C, {key \in Keys : C.expiry[key] # NoExpiry /\ t > C.expiry[key]})

(***************************************************************************)
(* History kept beside the cache, for stating the claims.                  *)
(***************************************************************************)
NoPut == [val |-> None, exp |-> NoExpiry]

CacheNow == [cache |-> cache, expiry |-> expiry]

\* the oldest entry of the ordered dict (0 when empty)
Oldest(c) == IF c = <<>> THEN 0 ELSE c[1].k

\* the oldest entry whose expiry instant has not passed (0 when none)
OldestUnexpired(C, t) ==
    LET live == SelectSeq(C.cache, LAMBDA e : ~IsExpired(C.expiry, e.k, t)) IN
    IF live = <<>> THEN 0 ELSE live[1].k

\* what an operation did: its name, key and result, the keys it removed and
\* the largest size the ordered dict had while it ran
Op(name, key, ret, peak, C2) ==
    [op |-> name, key |-> key, ret |-> ret, peak |-> peak,
     evicted |-> CacheKeys(cache) \ CacheKeys(C2.cache)]

\* a key that left the cache has no latest put any more
Forget(p, C2) == [k \in Keys |-> IF k \in CacheKeys(C2.cache) THEN p[k] ELSE NoPut]

\* keys by last use (a put or a get hit), least recent first
Touch(r, key, C2) ==
    SelectSeq(Append(SelectSeq(r, LAMBDA x : x # key), key),
              LAMBDA x : x \in CacheKeys(C2.cache))

Commit(C2, op, p, r) ==
    /\ cache' = C2.cache
    /\ expiry' = C2.expiry
    /\ lastOp' = op
    /\ putRec' = Forget(p, C2)
    /\ recency' = SelectSeq(r, LAMBDA x : x \in CacheKeys(C2.cache))
    /\ UNCHANGED <<poolVars, streamVars, serverVars>>

CachePut(key, value) ==
    LET C2 == __setitem__(CacheNow, key, value, now) IN
    Commit(C2, Op("put", key, None, Len(Inserted(CacheNow, key, value, now).cache), C2),
           [putRec EXCEPT ![key] = [val |-> value, exp |-> now + ttl]],
           Touch(recency, key, C2))

CacheSet(key, value, custom) ==
    LET C2 == set(CacheNow, key, value, custom, now) IN
    Commit(C2, Op("put", key, None, Len(Inserted(CacheNow, key, value, now).cache), C2),
           [putRec EXCEPT ![key] =
               [val |-> value, exp |-> now + (IF custom = NoTtl THEN ttl ELSE custom)]],
           Touch(recency, key, C2))

CacheGet(key) ==
    LET r == get(CacheNow, key, now) IN
    Commit(r.C, Op("get", key, r.ret, Len(cache), r.C), putRec,
           IF r.ret # None THEN Touch(recency, key, r.C) ELSE recency)

CacheContains(key) ==
    LET r == __contains__(CacheNow, key, now) IN
    Commit(r.C, Op("contains", key, IF r.ret THEN 1 ELSE None, Len(cache), r.C),
           putRec, recency)

CacheClear ==
    Commit(clear(CacheNow), Op("clear", 0, None, Len(cache), clear(CacheNow)),
           putRec, recency)

CacheSweep ==
    LET C2 == _cleanup_task(CacheNow, now) IN
    Commit(C2, Op("sweep", 0, None, Len(cache), C2), putRec, recency)

InitCache ==
    /\ cache = <<>>
    /\ expiry = [k \in Keys |-> NoExpiry]
    /\ putRec = [k \in Keys |-> NoPut]
    /\ recency = <<>>
    /\ lastOp = [op |-> "init", key |-> 0, ret |-> None, peak |-> 0, evicted |-> {}]

(***************************************************************************)
(* The streaming path: stream_routes.media_streamer and                    *)
(* ByteStreamer.yield_file with the session pool (custom_dl.py).           *)
(***************************************************************************)
max_sessions_per_dc == 5
max_session_retries == 3
socket_error_threshold == 5
GetFileAttempts == 3        \* for attempt in range(3)
WaitPolls == 10             \* for _ in range(10): await asyncio.sleep(1)
SocketCooldownSecs == 300   \* time.time() + 300

NClients == 2       \* upstream clients 1..NClients
NDCs == 2           \* data centers 1..NDCs
MaxSize == 4        \* file sizes 0..MaxSize, in bytes
MaxChunk == 3       \* Telegram.CHUNK_SIZE in 1..MaxChunk
MaxSessions == 7    \* media sessions created in one run
NLoad == 2          \* /dl requests of one run of SpecLoad
LoadParts == 2      \* chunks of the file of SpecLoad
NWear == 3          \* /dl requests of one run of SpecWear

\* the requests of one run of SpecPool: one more than the pool may hold
NStreams == max_sessions_per_dc + 1

Clients == 1..NClients
DCs == 1..NDCs
Sids == 1..MaxSessions
NoSession == 0      \* media_session = None
NoCooldown == -2    \* session not in socket_error_cooldown
NoUntil == -1       \* "bytes=FROM-": nothing after the dash

Min(a, b) == IF a < b THEN a ELSE b

(***************************************************************************)
(* The load balancer (utils/load_balancer.py).  Its state is the value lb  *)
(* = [health, last, rts, pushed, was], beside the load counters it shares  *)
(* with the streams.  last holds instants relative to time.time(); the     *)
(* code only asks whether more than cooldown_period has passed since one,  *)
(* so older instants are all kept as Unused, and 0, the initial value of   *)
(* last_used_time, is one of them.                                         *)
(***************************************************************************)
cooldown_period == 1    \* self.cooldown_period = 1.0, seconds
maxlen == 10            \* deque(maxlen=10)

MaxPushes == 11     \* response times recorded in one run of SpecWindow
RTs == {1, 2}       \* the response times recorded

Unused == now - cooldown_period - 1

\* next(iter(self.clients.keys())): the first client of the dict
FirstClient == CHOOSE c \in Clients : \A d \in Clients : c <= d

\* a selection that ignores the health flags
every_client(health) == Clients

available_clients(health) == {c \in Clients : health[c]}

\* a zero-load list that ignores the loads
rested_clients(avail, wl, last) ==
    {c \in avail : now - last[c] > cooldown_period}

zero_load_clients(avail, wl, last) ==
    {c \in avail : wl[c] = 0 /\ now - last[c] > cooldown_period}

\* -- mutant: a selection that leaves last_used_time alone
get_client_unstamped(lb, wl) ==
    LET avail == available_clients(lb.health)
        zero == zero_load_clients(avail, wl, lb.last)
    IN IF avail = {} THEN {[ret |-> FirstClient, lb |-> lb]}
       ELSE IF zero # {} THEN {[ret |-> c, lb |-> lb] : c \in zero}
       ELSE {[ret |-> c, lb |-> lb] : c \in avail}

\* the results get_client may return: [ret, lb].  In the weighted draw of
\* strategy 2 every available client has a score of at least 0.1, so a
\* positive weight: random.choices may return any of them.
get_client(lb, wl) ==
    LET avail == available_clients(lb.health)
        zero == zero_load_clients(avail, wl, lb.last)
        used(c) == [ret |-> c, lb |-> [lb EXCEPT !.last[c] = now]]
    IN IF avail = {} THEN {[ret |-> FirstClient, lb |-> lb]}
       ELSE IF zero # {} THEN {used(c) : c \in zero}
       ELSE {used(c) : c \in avail}

\* a list.append: nothing is ever dropped
append_unbounded(d, x) == Append(d, x)

\* deque(maxlen=10).append
append(d, x) == IF Len(d) = maxlen THEN Append(Tail(d), x) ELSE Append(d, x)

record_response_time(lb, client_id, response_time) ==
    [lb EXCEPT !.rts[client_id] = append(@, response_time),
               !.pushed[client_id] = Append(@, response_time)]

mark_unhealthy(lb, client_id) ==
    [lb EXCEPT !.health[client_id] = FALSE, !.was = @ \cup {client_id}]

mark_healthy(lb, client_id) == [lb EXCEPT !.health[client_id] = TRUE]

LbNow == [health |-> health_checks, last |-> last_used_time,
          rts |-> response_times, pushed |-> pushed, was |-> was_unhealthy]

\* no get_client since the last step
NoPick == [ret |-> 0, health |-> [c \in Clients |-> TRUE],
           wl |-> [c \in Clients |-> 0], last |-> [c \in Clients |-> Unused]]

\* get_client, called in the state lb, has returned client_id
Pick(client_id, lb) == [ret |-> client_id, health |-> lb.health,
                        wl |-> work_loads, last |-> lb.last]

(***************************************************************************)
(* The rate limiter (server/middlewares.py).  Its state is the value L =   *)
(* [ts, counter]; ts holds instants relative to time.time(), and those a   *)
(* time_period old or older, which is_rate_limited drops, are kept alike.  *)
(***************************************************************************)
rate_limit == 2         \* Server.RATE_LIMIT, from the configuration
burst_limit == 1        \* Server.BURST_LIMIT, from the configuration
NKeys == 2              \* the addresses requests come from: 1..NKeys
NReq == 3               \* requests of one run of SpecLimit

time_period == 60       \* RateLimiter(time_period=60), seconds
burst_period == 5       \* burst_min_time = current_time - 5
cleanup_every == 1000   \* if self.cleanup_counter > 1000
RetryAfter == 60        \* headers={"Retry-After": "60"}
REQUEST_TIMEOUT == 300  \* Server.REQUEST_TIMEOUT, seconds
init_limit == 1048576   \* req_length < 1024*1024
OtherTimeout == 60      \* timeout_duration = 60
cooldown_time == 300    \* ByteStreamer.cooldown_time, seconds

IPs == 1..NKeys
NoXff == 0              \* no X-Forwarded-For header
Stale == now - time_period
Paths == {"/status", "/dl/"}

\* [t for t in timestamps if t > current_time - window]
Recent(timestamps, window) == SelectSeq(timestamps, LAMBDA t : t > now - window)

\* -- mutant: a purge that empties every bucket
_cleanup_all(ts) == [k \in IPs |-> <<>>]

_cleanup_old_timestamps(ts) == [k \in IPs |-> Recent(ts[k], time_period)]

\* a sliding window with no burst clause: [ret, ts, counter]
is_over_rate(L, key) ==
    LET recent_requests == Recent(Append(L.ts[key], now), time_period)
    IN [ret     |-> Len(recent_requests) > rate_limit,
        ts      |-> [L.ts EXCEPT ![key] = recent_requests],
        counter |-> L.counter + 1]

\* is_rate_limited: [ret, ts, counter]
is_rate_limited(L, key) ==
    LET due == L.counter + 1 > cleanup_every
        ts1 == IF due THEN _cleanup_old_timestamps(L.ts) ELSE L.ts
        recent_requests == Recent(Append(ts1[key], now), time_period)
        burst_requests == Recent(recent_requests, burst_period)
    IN [ret     |-> /\ Len(recent_requests) > rate_limit
                    /\ Len(burst_requests) > burst_limit,
        ts      |-> [ts1 EXCEPT ![key] = recent_requests],
        counter |-> IF due THEN 0 ELSE L.counter + 1]

\* request.headers.get("X-Forwarded-For", request.remote)
ClientKey(xff, remote) == IF xff # NoXff THEN xff ELSE remote

whitelist == {}         \* whitelist = set(): nothing ever adds to it

\* a middleware that lets no request pass by the limiter
NeverBypassed(path, ip) == FALSE

\* request.path.startswith("/status") or ip in whitelist
Bypassed(path, ip) == path = "/status" \/ ip \in whitelist

\* timeout_middleware: the deadline of a request
timeout_duration(path) ==
    IF path \in {"/dl/", "/watch/"} THEN REQUEST_TIMEOUT ELSE OtherTimeout

(***************************************************************************)
(* Responses and exceptions.  A response is [status, text, retry_after];   *)
(* an exception is [type, msg], msg being what str(e) gives.               *)
(***************************************************************************)
NoResp == [status |-> 0, text |-> "", retry_after |-> 0]
NoExc == [type |-> "", msg |-> ""]

Response(status, text) == [status |-> status, text |-> text, retry_after |-> 0]

\* a 429 without the Retry-After header
HTTPTooManyRequestsBare == Response(429, "Too many requests. Please try again later.")

HTTPTooManyRequests ==
    [status |-> 429, text |-> "Too many requests. Please try again later.",
     retry_after |-> RetryAfter]

HTTPGatewayTimeout == Response(504, "Request timed out. Please try again.")

HTTPServiceUnavailable ==
    Response(503, "Service temporarily unavailable. Please try again.")

\* the exceptions of the metadata resolver: a lookup that finds no file, a
\* connection lost, anything else; with what str(e) shows of them
ResolverErrors ==
    {[type |-> t, msg |-> m] :
        t \in {"FIleNotFound", "ConnectionError", "RuntimeError"},
        m \in {"payload 1", "payload 2"}}

\* raise ValueError(f"File ID {db_id} temporarily unavailable ...")
CooldownError(db_id) == [type |-> "ValueError", msg |-> "File ID temporarily unavailable"]

\* file_size = file_id.file_size with file_id never assigned
UnboundLocalError == [type |-> "UnboundLocalError", msg |-> "file_id"]

CancelledError == [type |-> "CancelledError", msg |-> ""]

\* the except clauses of stream_handler (/dl): what becomes of an exception
\* of media_streamer, as [kind, resp]: a response returned or an HTTP
\* exception raised
stream_handler_except(e) ==
    CASE e.type = "InvalidHash" -> [kind |-> "http", resp |-> Response(403, e.msg)]
      [] e.type = "FIleNotFound" -> [kind |-> "http", resp |-> Response(404, e.msg)]
      [] e.type \in {"AttributeError", "BadStatusLine", "ConnectionResetError",
                     "ConnectionError", "CancelledError"} ->
            [kind |-> "response", resp |-> HTTPServiceUnavailable]
      [] OTHER -> [kind |-> "http", resp |-> Response(500, e.msg)]

\* error_handling_middleware: the response of what the inner handler did;
\* none when the cancellation is raised again
error_handling_middleware(outcome) ==
    CASE outcome.kind \in {"response", "http"} -> outcome.resp
      [] outcome.kind = "cancelled" -> NoResp
      [] OTHER -> Response(500, "An unexpected error occurred. Please try again later.")

\* timeout_middleware when its deadline expires: asyncio.wait_for cancels the
\* handler and waits for it; what the handler then returns or raises as an
\* HTTP exception is its result, and only a handler that ends cancelled makes
\* the TimeoutError that is answered 504
timeout_middleware(outcome) ==
    IF outcome.kind = "cancelled"
    THEN [kind |-> "response", resp |-> HTTPGatewayTimeout]
    ELSE outcome

(***************************************************************************)
(* Metadata resolution (ByteStreamer.get_file_properties), per client.     *)
(* The resolver state is rs = [failed, cooldown, cached, fic]; a cooldown  *)
(* instant is cooldown_time when set and Passed once it has passed.        *)
(***************************************************************************)
DbIds == {1, 2, 3, 4}   \* the file ids requested
Known == {1}            \* those the metadata store has a file of one chunk for
TwoPartIds == {4}       \* those it has a file of two chunks for
NotFoundIds == {2}      \* those the metadata store does not know
BadHashIds == {3}       \* those whose hash does not match

\* what get_file_ids may raise for db_id: for an id that is not known what
\* the metadata store says of it, else any failure
Raises(db_id) ==
    CASE db_id \in NotFoundIds -> {[type |-> "FIleNotFound", msg |-> "payload 1"]}
      [] db_id \in BadHashIds -> {[type |-> "InvalidHash", msg |-> "payload 1"]}
      [] OTHER -> ResolverErrors

\* get_file_properties up to its await of generate_file_properties:
\* [out, rs], out being raise (ValueError), return or await
get_file_properties(rs, c, db_id) ==
    LET cooling == /\ db_id \in rs.failed[c]
                   /\ rs.cooldown[c][db_id] # NoCooldown
                   /\ now < rs.cooldown[c][db_id]
        rs1 == IF db_id \in rs.failed[c]
               THEN [rs EXCEPT !.failed[c] = @ \ {db_id},
                               !.cooldown[c][db_id] = NoCooldown]
               ELSE rs
    IN IF cooling THEN [out |-> "raise", rs |-> rs]
       ELSE IF db_id \in rs1.cached[c] THEN [out |-> "return", rs |-> rs1]
       ELSE [out |-> "await", rs |-> rs1]

\* the except clause of get_file_properties
register_failure(rs, c, db_id) ==
    [rs EXCEPT !.failed[c] = @ \cup {db_id}, !.cooldown[c][db_id] = cooldown_time]

(***************************************************************************)
(* Range resolution (media_streamer).  A Range header is                   *)
(* [has, from, until]: absent, "bytes=FROM-" or "bytes=FROM-UNTIL".        *)
(***************************************************************************)
NoRange == [has |-> FALSE, from |-> 0, until |-> NoUntil]

\* from_bytes, until_bytes as parsed from the header, or of the whole file
ResolveRange(hdr, file_size) ==
    IF hdr.has
    THEN [from  |-> hdr.from,
          until |-> IF hdr.until # NoUntil THEN hdr.until ELSE file_size - 1]
    ELSE [from |-> 0, until |-> file_size - 1]

\* -- mutant: a range that ends before it starts passes
RangeInvalidUnordered(r, file_size) ==
    (r.until > file_size) \/ (r.from < 0)

RangeInvalid(r, file_size) ==
    (r.until > file_size) \/ (r.from < 0) \/ (r.until < r.from)

\* math.ceil(a / b) and math.floor(a / b), for a >= 0 and b > 0
Ceil(a, b) == (a + b - 1) \div b

Floor(a, b) == a \div b

\* -- mutant: the offset is not aligned down to the chunk size
UnalignedOffset(from_bytes, chunk_size) == from_bytes

AlignedOffset(from_bytes, chunk_size) == from_bytes - (from_bytes % chunk_size)

\* the arguments of yield_file and the headers, for a range that passed the check
StreamArgs(r, file_size, chunk_size) ==
    LET until_bytes == Min(r.until, file_size - 1)
        offset == AlignedOffset(r.from, chunk_size)
    IN [from_bytes     |-> r.from,
        until_bytes    |-> until_bytes,
        offset         |-> offset,
        first_part_cut |-> r.from - offset,
        last_part_cut  |-> (until_bytes % chunk_size) + 1,
        req_length     |-> until_bytes - r.from + 1,
        part_count     |-> Ceil(until_bytes, chunk_size) - Floor(offset, chunk_size)]

(***************************************************************************)
(* The upstream file.  Byte i of a file is written i, so that a sequence   *)
(* of bytes shows where in the file it comes from.                         *)
(***************************************************************************)
\* body[lo..hi], both inclusive
Bytes(lo, hi) == [j \in 1..(hi - lo + 1) |-> lo + j - 1]

\* r.bytes of upload.GetFile(offset, limit) on a file of file_size bytes
GetFile(file_size, offset, limit) ==
    IF offset >= file_size THEN <<>>
    ELSE Bytes(offset, Min(offset + limit, file_size) - 1)

\* chunk[a:b] for a, b >= 0
Slice(chunk, a, b) == SubSeq(chunk, a + 1, Min(b, Len(chunk)))

(***************************************************************************)
(* A request.  pc is where its handler or its generator stands:            *)
(*   idle       not arrived                                                *)
(*   prepared   headers sent, generator created and not started            *)
(*   create     in get_session_from_pool, awaiting generate_media_session  *)
(*   wait       in get_session_from_pool, in the polling loop              *)
(*   fetch      awaiting media_session.invoke(GetFile)                     *)
(*   replace    in handle_socket_error, awaiting generate_media_session    *)
(*   yielded    suspended at a yield, the consumer has the chunk           *)
(*   abandoned  suspended at a yield, the consumer has left the loop       *)
(*   done       handler returned 416, or the generator's finally has run   *)
(* Of its fields, held (the sessions it has acquired and not released),    *)
(* req (its last GetFile), gets (the GetFile calls its generator has made), *)
(* out (the bytes it has yielded), emitted (the offset of the chunk it     *)
(* yielded last), failed (a GetFile of its has failed) and end (why it     *)
(* ended) are history.                                                     *)
(***************************************************************************)
NoOffset == -1

\* no GetFile issued yet
NoReq == [offset |-> NoOffset, limit |-> 0, session |-> NoSession]

IdleStream ==
    [pc |-> "idle", site |-> "", after |-> "", end |-> "",
     client |-> 0, dc |-> 0, file_size |-> 0, chunk_size |-> 0,
     has_range |-> FALSE, from_bytes |-> 0, until_bytes |-> 0, asked_until |-> 0,
     status |-> 0, content_range |-> <<>>, content_length |-> 0,
     offset |-> 0, first_part_cut |-> 0, last_part_cut |-> 0, part_count |-> 0,
     current_part |-> 0, attempt |-> 0, polls |-> 0,
     media_session |-> NoSession, held |-> {},
     req |-> NoReq, gets |-> 0, out |-> <<>>, emitted |-> NoOffset,
     failed |-> FALSE,
     key |-> 0, path |-> "", db |-> 0, deadline |-> 0, invoked |-> FALSE,
     alt |-> FALSE, asked |-> FALSE, calls |-> 0, cooled |-> FALSE,
     handle |-> 0, range |-> NoRange,
     exc |-> NoExc,
     timed_out |-> FALSE, returned |-> FALSE, resp |-> NoResp]

\* the ByteStreamer state and the load counters, as one value M
Machine(st) ==
    [st     |-> st,
     wl     |-> work_loads,
     pool   |-> session_pool,
     in_use |-> session_in_use,
     rc     |-> session_retry_count,
     se     |-> socket_errors,
     cd     |-> socket_error_cooldown,
     forced |-> forced,
     lb     |-> LbNow,
     pick   |-> NoPick]

\* media_streamer from the resolved metadata to the prepared response
media_streamer(st, client_id, dc_id, file_size, hdr, chunk_size) ==
    LET r == ResolveRange(hdr, file_size) IN
    IF RangeInvalid(r, file_size)
    THEN [st EXCEPT !.pc = "done", !.end = "416",
                    !.client = client_id, !.dc = dc_id,
                    !.file_size = file_size, !.chunk_size = chunk_size,
                    !.has_range = hdr.has, !.asked_until = r.until,
                    !.from_bytes = r.from, !.until_bytes = r.until,
                    !.status = 416, !.content_range = <<"*", file_size>>]
    ELSE LET a == StreamArgs(r, file_size, chunk_size) IN
         [st EXCEPT !.pc = "prepared",
                    !.client = client_id, !.dc = dc_id,
                    !.file_size = file_size, !.chunk_size = chunk_size,
                    !.has_range = hdr.has, !.asked_until = r.until,
                    !.from_bytes = a.from_bytes, !.until_bytes = a.until_bytes,
                    !.status = IF hdr.has THEN 206 ELSE 200,
                    !.content_range = <<a.from_bytes, a.until_bytes, file_size>>,
                    !.content_length = a.req_length,
                    !.offset = a.offset,
                    !.first_part_cut = a.first_part_cut,
                    !.last_part_cut = a.last_part_cut,
                    !.part_count = a.part_count]

(***************************************************************************)
(* The session pool.                                                       *)
(***************************************************************************)
\* -- mutant: the cooldown of a session is not looked at
AvailableInCooldown(M, c, dc) ==
    SelectSeq(M.pool[c][dc],
              LAMBDA x : /\ ~M.in_use[x]
                         /\ M.rc[x] < max_session_retries)

Available(M, c, dc) ==
    SelectSeq(M.pool[c][dc],
              LAMBDA x : /\ ~M.in_use[x]
                         /\ M.rc[x] < max_session_retries
                         /\ M.cd[x] = NoCooldown)

\* "Remove sessions in cooldown that have expired", of this ByteStreamer
Purge(M, c) ==
    [M EXCEPT !.cd = [x \in Sids |->
        IF x <= Len(sessions) /\ sessions[x].client = c /\ M.cd[x] = Passed
        THEN NoCooldown ELSE M.cd[x]]]

\* -- mutant: hands out the first session of the pool, busy or not
TakeAny(M, c, dc) ==
    IF M.pool[c][dc] # <<>>
    THEN [M |-> [M EXCEPT !.in_use[M.pool[c][dc][1]] = TRUE],
          got |-> M.pool[c][dc][1], next |-> "got"]
    ELSE [M |-> M, got |-> NoSession, next |-> "create"]

\* get_session_from_pool up to its first suspension: a session (next = "got"),
\* or what it goes on to await
Acquire(M, c, dc) ==
    LET av == Available(M, c, dc) IN
    IF av # <<>>
    THEN [M |-> [M EXCEPT !.in_use[av[1]] = TRUE], got |-> av[1], next |-> "got"]
    ELSE LET Q == Purge(M, c) IN
         IF Len(Q.pool[c][dc]) >= max_sessions_per_dc
         THEN [M |-> Q, got |-> NoSession, next |-> "wait"]
         ELSE [M |-> Q, got |-> NoSession, next |-> "create"]

\* get_session_from_pool when a sleep(1) of the polling loop returns, polls
\* sleeps having returned before; next = "raise" is the IndexError of
\* self.session_pool[dc_id][0] on an empty pool
Poll(M, c, dc, polls) ==
    LET av == Available(M, c, dc)
        non_cooldown == SelectSeq(M.pool[c][dc], LAMBDA x : M.cd[x] = NoCooldown)
    IN
    IF av # <<>>
    THEN [M |-> [M EXCEPT !.in_use[av[1]] = TRUE], got |-> av[1], next |-> "got"]
    ELSE IF polls + 1 < WaitPolls
    THEN [M |-> M, got |-> NoSession, next |-> "wait"]
    ELSE IF non_cooldown # <<>>
    THEN [M |-> [M EXCEPT !.in_use[non_cooldown[1]] = TRUE,
                          !.forced = @ \cup {non_cooldown[1]}],
          got |-> non_cooldown[1], next |-> "got"]
    ELSE IF M.pool[c][dc] # <<>>
    THEN [M |-> [M EXCEPT !.in_use[M.pool[c][dc][1]] = TRUE,
                          !.forced = @ \cup {M.pool[c][dc][1]}],
          got |-> M.pool[c][dc][1], next |-> "got"]
    ELSE [M |-> M, got |-> NoSession, next |-> "raise"]

\* -- mutant: the session stays marked in use
keep_session(M, s) == M

release_session(M, s) == [M EXCEPT !.in_use[s] = FALSE]

\* -- mutant: the count is not reset when the threshold is reached
handle_socket_error_keeps_count(M, s) ==
    IF M.se[s] + 1 >= socket_error_threshold
    THEN [M |-> [M EXCEPT !.cd[s] = SocketCooldownSecs, !.se[s] = @ + 1],
          replace |-> TRUE]
    ELSE [M |-> [M EXCEPT !.se[s] = @ + 1], replace |-> FALSE]

\* handle_socket_error up to its suspension: replace says that it goes on to
\* create a replacement session
handle_socket_error(M, s) ==
    IF M.se[s] + 1 >= socket_error_threshold
    THEN [M |-> [M EXCEPT !.cd[s] = SocketCooldownSecs, !.se[s] = 0],
          replace |-> TRUE]
    ELSE [M |-> [M EXCEPT !.se[s] = @ + 1], replace |-> FALSE]

(***************************************************************************)
(* yield_file, from one suspension to the next.                            *)
(***************************************************************************)
\* the request of a generator that has returned: its frame is gone
Ended(st, end) ==
    [st EXCEPT !.pc = "done", !.end = end, !.site = "", !.after = "",
               !.attempt = 0, !.polls = 0, !.media_session = NoSession,
               !.current_part = 0, !.offset = 0, !.held = {}, !.req = NoReq,
               !.gets = 0, !.handle = 0]

\* -- mutant: the load is only given back when the stream was not cancelled
FinallyUnlessCancelled(M, end) ==
    LET s == M.st.media_session
        R == IF s # NoSession THEN release_session(M, s) ELSE M
    IN [R EXCEPT !.st = Ended(M.st, end),
                 !.wl[M.st.client] = IF end = "cancelled" THEN @ ELSE @ - 1]

\* the finally block; end records why the generator ended
Finally(M, end) ==
    LET s == M.st.media_session
        R == IF s # NoSession THEN release_session(M, s) ELSE M
    IN [R EXCEPT !.st = Ended(M.st, end),
                 !.wl[M.st.client] = @ - 1]

\* media_session.invoke(GetFile(location, offset, limit=chunk_size))
Invoke(M) ==
    [M EXCEPT !.st.pc = "fetch",
              !.st.gets = @ + 1,
              !.st.req = [offset  |-> M.st.offset,
                          limit   |-> M.st.chunk_size,
                          session |-> M.st.media_session]]

\* -- mutant: the loop does not count its turns
SameAttempt(M) == Invoke(M)

\* the next turn of "for attempt in range(3)", after its sleep(1)
NextAttempt(M) == Invoke([M EXCEPT !.st.attempt = @ + 1])

\* a session came back from get_session_from_pool
Acquired(M, s) ==
    LET G == [M EXCEPT !.st.media_session = s, !.st.held = {s}] IN
    IF M.st.site = "first"
    THEN Invoke([G EXCEPT !.st.current_part = 1, !.st.attempt = 0])
    ELSE NextAttempt(G)

\* media_session = await self.get_session_from_pool(...), from its start
GetSession(M, site) ==
    LET a == Acquire(M, M.st.client, M.st.dc)
        G == [a.M EXCEPT !.st.site = site]
    IN IF a.next = "got" THEN Acquired(G, a.got)
       ELSE [G EXCEPT !.st.pc = a.next, !.st.polls = 0]

\* what follows handle_socket_error at each of its three call sites
AfterSocketError(M) ==
    LET s == M.st.media_session IN
    CASE M.st.after = "first" ->
            IF M.rc[s] >= max_session_retries
            THEN GetSession([release_session(M, s) EXCEPT !.st.held = {}], "retry")
            ELSE NextAttempt(M)
      [] M.st.after = "later" -> NextAttempt(M)
      [] OTHER -> Finally(M, "error")

\* await self.handle_socket_error(media_session, e)
SocketError(M, after) ==
    LET h == handle_socket_error(M, M.st.media_session)
        G == [h.M EXCEPT !.st.after = after]
    IN IF h.replace THEN [G EXCEPT !.st.pc = "replace"] ELSE AfterSocketError(G)

\* the chunk of the part just received: yield its piece, or stop at EOF
Emit(M, chunk) ==
    LET st == M.st
        piece == IF st.part_count = 1
                    THEN Slice(chunk, st.first_part_cut, st.last_part_cut)
                 ELSE IF st.current_part = 1
                    THEN Slice(chunk, st.first_part_cut, Len(chunk))
                 ELSE IF st.current_part = st.part_count
                    THEN Slice(chunk, 0, st.last_part_cut)
                 ELSE chunk
    IN IF chunk = <<>> THEN Finally(M, "complete")
       ELSE [M EXCEPT !.st.pc = "yielded",
                      !.st.out = @ \o piece,
                      !.st.emitted = st.offset]

\* the consumer asks for the next chunk
Continue(M) ==
    LET G == [M EXCEPT !.st.current_part = @ + 1,
                       !.st.offset = @ + M.st.chunk_size,
                       !.st.attempt = 0]
    IN IF G.st.current_part > G.st.part_count
       THEN Finally(G, "complete")
       ELSE Invoke(G)

\* -- mutant: a later part that failed three times is skipped
TransientSkipsPart(M) ==
    LET F == [M EXCEPT !.st.failed = TRUE] IN
    IF M.st.current_part = 1
    THEN IF M.st.attempt < GetFileAttempts - 1
         THEN SocketError([F EXCEPT !.rc[M.st.media_session] = @ + 1], "first")
         ELSE SocketError(F, "outer")
    ELSE IF M.st.attempt < GetFileAttempts - 1
         THEN SocketError(F, "later")
         ELSE Continue(F)

\* a transient error (TimeoutError, ConnectionError, OSError) of GetFile
Transient(M) ==
    LET F == [M EXCEPT !.st.failed = TRUE] IN
    IF M.st.current_part = 1
    THEN IF M.st.attempt < GetFileAttempts - 1
         THEN SocketError([F EXCEPT !.rc[M.st.media_session] = @ + 1], "first")
         ELSE SocketError(F, "outer")
    ELSE IF M.st.attempt < GetFileAttempts - 1
         THEN SocketError(F, "later")
         ELSE Finally(F, "truncated")

(***************************************************************************)
(* The handlers behind the middleware chain.  What a handler works on is   *)
(* W = [st, lb, pick, rs]: its request, the load balancer, the resolver.   *)
(* Of the fields of a request, key, path and db are its inputs, deadline   *)
(* the timeout the timeout middleware started for it, alt whether          *)
(* media_streamer has switched to its second client, resp the response     *)
(* returned through the chain; invoked (its route handler was called),     *)
(* asked (it called the external metadata resolver), calls (how often its  *)
(* unfinished resolution has called it), cooled (a resolve of its hit an   *)
(* unexpired failure cooldown), exc (the exception its handler ended       *)
(* with), timed_out and returned are history; handle is the client whose   *)
(* form of the file handle file_id was decoded from.  A value of           *)
(* file_info_cache is the client that resolved the cached file_id.         *)
(***************************************************************************)
RsNow == [failed |-> failed_file_ids, cooldown |-> failure_cooldown,
          cached |-> cached_file_ids, fic |-> file_info_cache]

World(st) == [st |-> st, lb |-> LbNow, pick |-> NoPick, rs |-> RsNow,
              frc |-> CacheNow]

\* the handler has returned resp through the middleware chain
Answer(st, end, resp) ==
    [st EXCEPT !.pc = "done", !.end = end, !.attempt = 0, !.calls = 0,
               !.handle = 0, !.returned = TRUE, !.resp = resp]

\* root_route_handler: the status document
root_route_handler(W) ==
    [W EXCEPT !.st = Answer(@, "status", Response(200, "server_status"))]

\* file_id.file_size of the file the metadata store has for db_id
file_size_of(db_id) == IF db_id \in TwoPartIds THEN 4 ELSE 2

\* media_streamer with file_id bound on client c: the metadata goes into
\* file_info_cache when it came from the resolver (the cache of file infos
\* keeps them twice the configured ttl, and holds more ids than are
\* requested here), the range is resolved and the response prepared; the
\* file has chunks of two bytes on data center 1
Resolved(W, c, store) ==
    LET st == media_streamer([W.st EXCEPT !.attempt = 0, !.calls = 0,
                                          !.handle = IF store THEN c ELSE @],
                             c, 1, file_size_of(W.st.db), W.st.range, 2)
    IN [W EXCEPT !.st = IF st.end = "416"
                        THEN [st EXCEPT !.handle = 0, !.returned = TRUE,
                                        !.resp = Response(416, "416: Range not satisfiable")]
                        ELSE st,
                 !.rs.fic = IF store THEN set(@, W.st.db, c, 2 * ttl, now) ELSE @]

\* media_streamer ends with exception e: stream_handler and the error
\* middleware make the response
Raised(W, e) ==
    [W EXCEPT !.st = Answer([@ EXCEPT !.exc = e], "raised",
                            error_handling_middleware(stream_handler_except(e)))]

\* media_streamer after get_file_properties has failed on client c: the
\* client is marked unhealthy and a second one asked for
Retry(W, c) ==
    LET lb1 == mark_unhealthy(W.lb, c) IN
    UNION {LET alt_client_id == r.ret
               W1 == [W EXCEPT !.lb = r.lb, !.pick = Pick(r.ret, lb1)]
           IN IF alt_client_id = c THEN {Raised(W1, UnboundLocalError)}
              ELSE LET g == get_file_properties(W1.rs, alt_client_id, W.st.db)
                       W2 == [W1 EXCEPT !.rs = g.rs, !.st.client = alt_client_id,
                                        !.st.alt = TRUE]
                   IN CASE g.out = "return" -> {Resolved(W2, alt_client_id, TRUE)}
                        [] g.out = "await" ->
                             {[W2 EXCEPT !.st.pc = "resolving", !.st.attempt = 0,
                                         !.st.asked = TRUE,
                                         !.st.calls = @ + 1]}
                        [] OTHER ->
                             {Raised([W2 EXCEPT !.st.cooled = TRUE],
                                     CooldownError(W.st.db))}
          : r \in get_client(lb1, work_loads)}

\* media_streamer to its first await: a client is selected, the metadata
\* looked up in file_info_cache and then in the client's ByteStreamer
to_media_streamer(W) ==
    UNION {LET c == r.ret
               fi == get(W.rs.fic, W.st.db, now)
               W1 == [W EXCEPT !.lb = r.lb, !.pick = Pick(c, W.lb),
                               !.st.client = c, !.rs.fic = fi.C]
           IN IF fi.ret # None
              THEN {Resolved([W1 EXCEPT !.st.handle = fi.ret], c, FALSE)}
              ELSE LET g == get_file_properties(W1.rs, c, W.st.db)
                       W2 == [W1 EXCEPT !.rs = g.rs]
                   IN CASE g.out = "return" -> {Resolved(W2, c, TRUE)}
                        [] g.out = "await" ->
                             {[W2 EXCEPT !.st.pc = "resolving", !.st.asked = TRUE,
                                         !.st.calls = @ + 1]}
                        [] OTHER -> Retry([W2 EXCEPT !.st.cooled = TRUE], c)
          : r \in get_client(W.lb, work_loads)}

\* cache_key = f"dl_{path}_init"
init_key(db_id) == db_id

\* range_header and "bytes=0-" in range_header
IsInitRange(hdr) == hdr.has /\ hdr.from = 0

\* web.Response(status=response.status, headers=dict(response.headers),
\* body=b''): the snapshot media_streamer caches
Snapshot(st) ==
    [status |-> st.status, content_range |-> st.content_range,
     content_length |-> st.content_length, body |-> <<>>]

\* stream_handler returns the cached response v
Cached(st, v) ==
    [Answer(st, "cached", Response(v.status, "")) EXCEPT
        !.status = v.status, !.content_range = v.content_range,
        !.content_length = v.content_length, !.out = v.body]

\* "if cached_response": the truth value of a web.Response is that of
\* aiohttp, which is not part of the sources and has changed between its
\* releases (its length as a mapping, or always true)
ResponseTruth == {TRUE, FALSE}

\* stream_handler (/dl): a request whose Range header contains bytes=0-
\* looks into file_response_cache and returns what it finds there; every
\* other request goes to media_streamer
stream_handler(W) ==
    IF ~IsInitRange(W.st.range) THEN to_media_streamer(W)
    ELSE LET fr == get(W.frc, init_key(W.st.db), now)
             W0 == [W EXCEPT !.frc = fr.C]
             \* get returns None: the key is missing or has expired
             miss == ~__contains__(W.frc, init_key(W.st.db), now).ret
         IN IF miss THEN to_media_streamer(W0)
            ELSE UNION {IF truth THEN {[W0 EXCEPT !.st = Cached(@, fr.ret)]}
                        ELSE to_media_streamer(W0) : truth \in ResponseTruth}

(***************************************************************************)
(* The steps.                                                              *)
(***************************************************************************)
SetLb(lb, pick) ==
    /\ health_checks' = lb.health
    /\ last_used_time' = lb.last
    /\ response_times' = lb.rts
    /\ pushed' = lb.pushed
    /\ was_unhealthy' = lb.was
    /\ lastPick' = pick

SetMachine(i, M) ==
    /\ streams' = [streams EXCEPT ![i] = M.st]
    /\ work_loads' = M.wl
    /\ session_pool' = M.pool
    /\ session_in_use' = M.in_use
    /\ session_retry_count' = M.rc
    /\ socket_errors' = M.se
    /\ socket_error_cooldown' = M.cd
    /\ forced' = M.forced
    /\ SetLb(M.lb, M.pick)
    /\ UNCHANGED <<closing, limiterVars, resolverVars>>

Set(i, M) == SetMachine(i, M) /\ UNCHANGED cacheVars

\* a /dl request arrives and is answered 416 or with the headers of a stream;
\* the requests are numbered in the order in which their streams start
Request(i, client_id, dc_id, file_size, hdr, chunk_size) ==
    /\ streams[i].pc = "idle"
    /\ IF i = 1 THEN TRUE ELSE streams[i - 1].pc \notin {"idle", "prepared"}
    /\ Set(i, Machine(media_streamer(streams[i], client_id, dc_id, file_size,
                                     hdr, chunk_size)))
    /\ UNCHANGED sessions

\* the consumer starts the generator: yield_file runs to its first suspension
StartStream(i) ==
    /\ streams[i].pc = "prepared"
    /\ Set(i, GetSession([Machine(streams[i]) EXCEPT
                              !.wl[streams[i].client] = @ + 1], "first"))
    /\ UNCHANGED sessions

\* generate_media_session returns in get_session_from_pool
CreateDone(i) ==
    LET st == streams[i]
        s == Len(sessions) + 1
        M == Machine(st)
    IN /\ st.pc = "create"
       /\ s <= MaxSessions
       /\ sessions' = Append(sessions, [client |-> st.client, dc |-> st.dc])
       /\ Set(i, Acquired([M EXCEPT !.pool[st.client][st.dc] = Append(@, s),
                                    !.in_use[s] = TRUE], s))

\* generate_media_session raises in get_session_from_pool: AuthBytesInvalid
\* (kind "auth") or a connection error (kind "socket")
CreateFail(i, kind) ==
    LET st == streams[i] IN
    /\ st.pc = "create"
    /\ Set(i, IF kind = "socket" /\ st.media_session # NoSession
              THEN SocketError(Machine(st), "outer")
              ELSE Finally(Machine(st), "error"))
    /\ UNCHANGED sessions

\* a sleep(1) of the polling loop of get_session_from_pool returns
WaitPoll(i) ==
    LET st == streams[i]
        p == Poll(Machine(st), st.client, st.dc, st.polls)
    IN /\ st.pc = "wait"
       /\ Set(i, CASE p.next = "got" -> Acquired(p.M, p.got)
                   [] p.next = "wait" -> [p.M EXCEPT !.st.polls = @ + 1]
                   [] OTHER -> Finally(p.M, "error"))
       /\ UNCHANGED sessions

\* GetFile returns an upload.File
FetchOk(i) ==
    LET st == streams[i] IN
    /\ st.pc = "fetch"
    /\ Set(i, Emit(Machine(st), GetFile(st.file_size, st.offset, st.chunk_size)))
    /\ UNCHANGED sessions

\* GetFile returns something that is no upload.File: the first result is
\* skipped by the isinstance test, a later one has no .bytes (AttributeError)
FetchNotFile(i) ==
    LET st == streams[i] IN
    /\ st.pc = "fetch"
    /\ Set(i, IF st.current_part = 1
              THEN Finally(Machine(st), "notfile")
              ELSE SocketError(Machine(st), "outer"))
    /\ UNCHANGED sessions

\* GetFile fails with TimeoutError, ConnectionError or OSError
FetchTransient(i) ==
    /\ streams[i].pc = "fetch"
    /\ Set(i, Transient(Machine(streams[i])))
    /\ UNCHANGED sessions

\* GetFile fails with FloodWait or any other exception
FetchFlood(i) ==
    /\ streams[i].pc = "fetch"
    /\ Set(i, Finally(Machine(streams[i]), "flood"))
    /\ UNCHANGED sessions

\* the replacement session of handle_socket_error is created
ReplaceDone(i) ==
    LET st == streams[i]
        s == Len(sessions) + 1
        dc == sessions[st.media_session].dc
        M == Machine(st)
    IN /\ st.pc = "replace"
       /\ s <= MaxSessions
       /\ sessions' = Append(sessions, [client |-> st.client, dc |-> dc])
       /\ Set(i, AfterSocketError([M EXCEPT !.pool[st.client][dc] = Append(@, s)]))

\* creating the replacement session fails: logged
ReplaceFail(i) ==
    /\ streams[i].pc = "replace"
    /\ Set(i, AfterSocketError(Machine(streams[i])))
    /\ UNCHANGED sessions

\* response.write returned a true value: the consumer asks for the next chunk
Resume(i) ==
    /\ streams[i].pc = "yielded"
    /\ Set(i, Continue(Machine(streams[i])))
    /\ UNCHANGED sessions

\* the consumer leaves its loop with the generator suspended: response.write
\* returned a false value, or the consumer was cancelled while writing
Abandon(i) ==
    /\ streams[i].pc = "yielded"
    /\ Set(i, [Machine(streams[i]) EXCEPT !.st.pc = "abandoned"])
    /\ UNCHANGED sessions

\* the event loop closes the abandoned generator: GeneratorExit at the yield
Finalize(i) ==
    /\ streams[i].pc = "abandoned"
    /\ Set(i, Finally(Machine(streams[i]), "closed"))
    /\ UNCHANGED sessions

\* the request is cancelled (stream timeout, middleware deadline, disconnect)
\* while the generator awaits: CancelledError at the await
Cancel(i) ==
    /\ streams[i].pc \in {"create", "wait", "fetch", "replace"}
    /\ Set(i, Finally(Machine(streams[i]), "cancelled"))
    /\ UNCHANGED sessions

\* the cooldown instant of a session passes: 300 seconds after it was set
CooldownPasses(s) ==
    /\ socket_error_cooldown[s] = SocketCooldownSecs
    /\ socket_error_cooldown' = [socket_error_cooldown EXCEPT ![s] = Passed]
    /\ UNCHANGED <<cacheVars, streamVars, sessions, session_pool, session_in_use,
                   session_retry_count, socket_errors, closing, forced, serverVars>>

\* the sessions clean_sessions finds to close in the pool of dc
Problematic(c, dc) ==
    SelectSeq(session_pool[c][dc],
              LAMBDA x : /\ \/ session_retry_count[x] >= max_session_retries
                            \/ socket_errors[x] >= socket_error_threshold
                         /\ ~session_in_use[x])

\* list.remove(x)
Remove(seq, x) == SelectSeq(seq, LAMBDA y : y # x)

\* clean_sessions drops session s from the pool and from the four dicts, and
\* goes on to await its stop() with the sessions of rest still to close
CloseSession(c, s, rest) ==
    /\ session_pool' = [session_pool EXCEPT ![c][sessions[s].dc] = Remove(@, s)]
    /\ session_in_use' = [session_in_use EXCEPT ![s] = FALSE]
    /\ session_retry_count' = [session_retry_count EXCEPT ![s] = 0]
    /\ socket_errors' = [socket_errors EXCEPT ![s] = 0]
    /\ socket_error_cooldown' = [socket_error_cooldown EXCEPT ![s] = NoCooldown]
    /\ closing' = [closing EXCEPT ![c] = rest]
    /\ UNCHANGED <<cacheVars, streamVars, sessions, forced, serverVars>>

\* the pass of clean_sessions reaches the pool of dc and finds sessions to close
clean_sessions(c, dc) ==
    /\ closing[c] = <<>>
    /\ Len(session_pool[c][dc]) > 1
    /\ Problematic(c, dc) # <<>>
    /\ CloseSession(c, Head(Problematic(c, dc)), Tail(Problematic(c, dc)))

\* a session.stop() returns and clean_sessions closes the next session
CloseNext(c) ==
    /\ closing[c] # <<>>
    /\ CloseSession(c, Head(closing[c]), Tail(closing[c]))

\* a pass of _health_check over the sessions of client c
_health_check(c) ==
    LET mine(x) == x <= Len(sessions) /\ sessions[x].client = c
        cd == [x \in Sids |->
                 IF mine(x) /\ socket_error_cooldown[x] = Passed
                 THEN NoCooldown ELSE socket_error_cooldown[x]]
        se == [x \in Sids |->
                 IF /\ mine(x)
                    /\ socket_errors[x] > 0
                    /\ socket_errors[x] < socket_error_threshold
                 THEN socket_errors[x] - 1 ELSE socket_errors[x]]
    IN /\ <<cd, se>> # <<socket_error_cooldown, socket_errors>>
       /\ socket_error_cooldown' = cd
       /\ socket_errors' = se
       /\ UNCHANGED <<cacheVars, streamVars, sessions, session_pool,
                      session_in_use, session_retry_count, closing, forced,
                      serverVars>>

\* d seconds pass
Elapse(d) ==
    LET older(e) == [k \in DOMAIN e |-> IF e[k] = NoExpiry THEN NoExpiry
                                    ELSE Aged(e[k], d, Passed)]
    IN
    /\ expiry' = older(expiry)
    /\ putRec' = [k \in Keys |-> IF putRec[k] = NoPut THEN NoPut
                                  ELSE [putRec[k] EXCEPT !.exp = Aged(@, d, Passed)]]
    /\ lastOp' = [op |-> "tick", key |-> 0, ret |-> None, peak |-> Len(cache),
                  evicted |-> {}]
    /\ last_used_time' = [c \in Clients |-> Aged(last_used_time[c], d, Unused)]
    /\ lastPick' = NoPick
    /\ request_timestamps' =
          [k \in IPs |-> [j \in 1..Len(request_timestamps[k]) |->
                             Aged(request_timestamps[k][j], d, Stale)]]
    /\ counted' = [k \in IPs |->
                     SelectSeq([j \in 1..Len(counted[k]) |->
                                   [counted[k][j] EXCEPT !.at = Aged(@, d, Stale)]],
                               LAMBDA x : x.at > Stale)]
    /\ file_info_cache' = [file_info_cache EXCEPT !.expiry = older(@)]
    /\ UNCHANGED <<cache, recency, poolVars, streamVars, health_checks,
                   response_times, pushed, was_unhealthy, cleanup_counter,
                   failed_file_ids, failure_cooldown, cached_file_ids>>

\* a second passes
Tick == Elapse(1)

NextCache ==
    \/ \E key \in Keys, value \in Vals : CachePut(key, value)
    \/ \E key \in Keys, value \in Vals, custom \in {NoTtl} \cup CustomTtls :
          CacheSet(key, value, custom)
    \/ \E key \in Keys : CacheGet(key)
    \/ \E key \in Keys : CacheContains(key)
    \/ CacheClear
    \/ CacheSweep
    \/ Tick

(***************************************************************************)
(* The calls of the load balancer.                                         *)
(***************************************************************************)
GetClient ==
    \E r \in get_client(LbNow, work_loads) :
        /\ SetLb(r.lb, Pick(r.ret, LbNow))
        /\ UNCHANGED <<cacheVars, poolVars, streamVars, limiterVars, resolverVars>>

MarkUnhealthy(c) ==
    /\ SetLb(mark_unhealthy(LbNow, c), NoPick)
    /\ UNCHANGED <<cacheVars, poolVars, streamVars, limiterVars, resolverVars>>

MarkHealthy(c) ==
    /\ SetLb(mark_healthy(LbNow, c), NoPick)
    /\ UNCHANGED <<cacheVars, poolVars, streamVars, limiterVars, resolverVars>>

Pushes == LET RECURSIVE sum(_)
              sum(S) == IF S = {} THEN 0
                        ELSE LET c == CHOOSE x \in S : TRUE
                             IN Len(pushed[c]) + sum(S \ {c})
          IN sum(Clients)

RecordResponseTime(c, rt) ==
    /\ Pushes < MaxPushes
    /\ SetLb(record_response_time(LbNow, c, rt), NoPick)
    /\ UNCHANGED <<cacheVars, poolVars, streamVars, limiterVars, resolverVars>>

(***************************************************************************)
(* A request through the middleware chain: error map, rate limit, timeout, *)
(* performance, handler.                                                   *)
(***************************************************************************)
Put(i, W) ==
    /\ streams' = [streams EXCEPT ![i] = W.st]
    /\ SetLb(W.lb, W.pick)
    /\ failed_file_ids' = W.rs.failed
    /\ failure_cooldown' = W.rs.cooldown
    /\ cached_file_ids' = W.rs.cached
    /\ file_info_cache' = W.rs.fic
    /\ cache' = W.frc.cache
    /\ expiry' = W.frc.expiry
    /\ UNCHANGED <<lastOp, putRec, recency, poolVars, work_loads>>

\* request i arrives from remote with or without an X-Forwarded-For header:
\* the rate limiter admits or rejects it, the timeout middleware starts its
\* deadline and its route handler runs to its first await
Arrive(i, xff, remote, path, db_id) ==
    /\ streams[i].pc = "idle"
    /\ IF i = 1 THEN TRUE ELSE streams[i - 1].pc # "idle"
    /\ LET ip == ClientKey(xff, remote)
           st == [streams[i] EXCEPT !.key = ip, !.path = path, !.db = db_id]
           pass == Bypassed(path, ip)
           lim == IF pass THEN [ret |-> FALSE, ts |-> request_timestamps,
                                counter |-> cleanup_counter]
                  ELSE is_rate_limited([ts |-> request_timestamps,
                                        counter |-> cleanup_counter], ip)
           W == World([st EXCEPT !.deadline = timeout_duration(path),
                                 !.invoked = TRUE])
       IN /\ request_timestamps' = lim.ts
          /\ cleanup_counter' = lim.counter
          /\ counted' = IF pass THEN counted
                        ELSE [counted EXCEPT ![ip] =
                                 Append(@, [at |-> now, ok |-> ~lim.ret])]
          /\ IF lim.ret
             THEN Put(i, World(Answer(st, "limited", HTTPTooManyRequests)))
             ELSE \E W2 \in (IF path = "/status" THEN {root_route_handler(W)}
                              ELSE stream_handler(W)) : Put(i, W2)

\* generate_file_properties returns: the metadata is cached by the client's
\* ByteStreamer and in file_info_cache, and the response is prepared
ResolveOk(i) ==
    LET st == streams[i]
        W == World(st)
    IN /\ st.pc = "resolving"
       /\ st.db \in Known \cup TwoPartIds
       /\ Put(i, Resolved([W EXCEPT !.rs.cached[st.client] = @ \cup {st.db}],
                          st.client, TRUE))
       /\ UNCHANGED limiterVars

\* get_file_ids raises e in generate_file_properties: retried after a sleep,
\* and raised on the third attempt; get_file_properties then registers the
\* failure, and media_streamer tries another client when this was its first
ResolveFail(i, e) ==
    LET st == streams[i]
        W == World(st)
        W1 == [W EXCEPT !.rs = register_failure(@, st.client, st.db)]
    IN /\ st.pc = "resolving"
       /\ \E W2 \in (IF st.attempt < 2
                      THEN {[W EXCEPT !.st.attempt = @ + 1, !.st.calls = @ + 1]}
                      ELSE IF st.alt THEN {Raised(W1, e)}
                      ELSE Retry(W1, st.client)) : Put(i, W2)
       /\ UNCHANGED limiterVars

\* the failure cooldown of db_id on client c passes: cooldown_time seconds
\* after the failed call began
FailureCooldownPasses(c, db_id) ==
    /\ failure_cooldown[c][db_id] = cooldown_time
    /\ failure_cooldown' = [failure_cooldown EXCEPT ![c][db_id] = Passed]
    /\ UNCHANGED <<cacheVars, poolVars, streamVars, balancerVars, limiterVars,
                   failed_file_ids, cached_file_ids, file_info_cache>>

\* the deadline of the timeout middleware expires on a /dl request whose
\* handler has not returned: the handler is cancelled where it awaits.
\* media_streamer lets the CancelledError through, stream_handler catches it
\* and returns its 503, which is the result of wait_for.  A generator that
\* awaits ends through its finally block; one suspended at its yield is left
\* to the event loop by the consumer, whose write swallows the cancellation
Deadline(i) ==
    LET st == streams[i]
        resp == error_handling_middleware(
                    timeout_middleware(stream_handler_except(CancelledError)))
        over(M) == [M EXCEPT !.st.timed_out = TRUE, !.st.returned = TRUE,
                             !.st.exc = CancelledError, !.st.resp = resp]
        M == Machine(st)
    IN /\ st.deadline > 0
       /\ ~st.returned
       /\ st.pc \in {"resolving", "prepared", "create", "wait", "fetch",
                     "replace", "yielded"}
       /\ Set(i, CASE st.pc \in {"resolving", "prepared"} ->
                         over([M EXCEPT !.st.pc = "done", !.st.end = "cancelled",
                                        !.st.attempt = 0, !.st.calls = 0])
                   [] st.pc = "yielded" -> over([M EXCEPT !.st.pc = "abandoned"])
                   [] OTHER -> over(Finally(M, "cancelled")))
       /\ UNCHANGED sessions

\* media_streamer after its stream has ended, by exhaustion, by an error
\* inside the generator or by a failed write: write_eof, the response time
\* goes to the load balancer, the client is marked healthy and the prepared
\* response is returned; before that the headers of a response to a Range
\* of bytes=0- and of less than init_limit bytes go into file_response_cache
Return(i, response_time) ==
    LET st == streams[i]
        M == Machine(st)
    IN /\ st.invoked
       /\ ~st.returned
       /\ st.pc \in {"done", "abandoned"}
       /\ SetMachine(i, [M EXCEPT !.lb = mark_healthy(
                                     record_response_time(@, st.client, response_time),
                                     st.client),
                                  !.st.returned = TRUE,
                                  !.st.resp = Response(st.status, "stream")])
       /\ LET C == IF IsInitRange(st.range) /\ st.content_length < init_limit
                   THEN __setitem__(CacheNow, init_key(st.db), Snapshot(st), now)
                   ELSE CacheNow
          IN cache' = C.cache /\ expiry' = C.expiry
       /\ UNCHANGED <<lastOp, putRec, recency, sessions>>

InitLimiter ==
    /\ request_timestamps = [k \in IPs |-> <<>>]
    /\ cleanup_counter = 0
    /\ counted = [k \in IPs |-> <<>>]

InitResolver ==
    /\ failed_file_ids = [c \in Clients |-> {}]
    /\ failure_cooldown = [c \in Clients |-> [f \in DbIds |-> NoCooldown]]
    /\ cached_file_ids = [c \in Clients |-> {}]
    /\ file_info_cache = [cache |-> <<>>, expiry |-> [k \in DbIds |-> NoExpiry]]

InitBalancer ==
    /\ health_checks = [c \in Clients |-> TRUE]
    /\ last_used_time = [c \in Clients |-> Unused]
    /\ response_times = [c \in Clients |-> <<>>]
    /\ pushed = [c \in Clients |-> <<>>]
    /\ was_unhealthy = {}
    /\ lastPick = NoPick

InitStreams ==
    /\ work_loads = [c \in Clients |-> 0]
    /\ sessions = <<>>
    /\ session_pool = [c \in Clients |-> [dc \in DCs |-> <<>>]]
    /\ session_in_use = [s \in Sids |-> FALSE]
    /\ session_retry_count = [s \in Sids |-> 0]
    /\ socket_errors = [s \in Sids |-> 0]
    /\ socket_error_cooldown = [s \in Sids |-> NoCooldown]
    /\ closing = [c \in Clients |-> <<>>]
    /\ streams = [i \in 1..NStreams |-> IdleStream]
    /\ forced = {}

Init == InitCache /\ InitStreams /\ InitBalancer /\ InitLimiter /\ InitResolver

Headers == {NoRange} \cup
           {[has |-> TRUE, from |-> f, until |-> u] :
                f \in 0..MaxSize, u \in {NoUntil} \cup (0..(MaxSize + 1))}

\* one request, of any range of any file
Next ==
    \/ /\ streams[1].pc = "idle"
       /\ \E c \in Clients, dc \in DCs, size \in 0..MaxSize, hdr \in Headers,
             chunk_size \in 1..MaxChunk : Request(1, c, dc, size, hdr, chunk_size)
    \/ StartStream(1)
    \/ CreateDone(1)
    \/ \E kind \in {"auth", "socket"} : CreateFail(1, kind)
    \/ FetchOk(1)
    \/ FetchNotFile(1)
    \/ FetchTransient(1)
    \/ FetchFlood(1)
    \/ Resume(1)
    \/ Abandon(1)
    \/ Finalize(1)
    \/ Cancel(1)

Spec == Init /\ [][Next]_vars

\* what a stream does whatever the others do
StreamStep(i) ==
    \/ StartStream(i)
    \/ CreateDone(i)
    \/ \E kind \in {"auth", "socket"} : CreateFail(i, kind)
    \/ FetchOk(i)
    \/ FetchNotFile(i)
    \/ FetchTransient(i)
    \/ FetchFlood(i)
    \/ ReplaceDone(i)
    \/ ReplaceFail(i)
    \/ Resume(i)
    \/ Abandon(i)
    \/ Finalize(i)
    \/ Cancel(i)

\* NLoad concurrent requests for a file of LoadParts chunks of two bytes, on
\* any client, with every failure and the cleaner, in the ten minutes before
\* the first health check; so few streams leave the cleaner at most one
\* session to close in a pass
NextLoad ==
    \/ \E i \in 1..NLoad :
          /\ streams[i].pc = "idle"
          /\ \E c \in Clients : Request(i, c, 1, 2 * LoadParts, NoRange, 2)
    \/ \E i \in 1..NLoad : StreamStep(i)
    \/ \E s \in Sids : CooldownPasses(s)
    \/ \E c \in Clients, dc \in DCs : clean_sessions(c, dc)

SpecLoad == Init /\ [][NextLoad]_vars

\* NStreams concurrent requests for one file on one client and one data
\* center, each of them cancelled at some await of its generator
NextPool ==
    \/ \E i \in 1..NStreams : Request(i, 1, 1, 2, NoRange, 2)
    \/ \E i \in 1..NStreams : StartStream(i)
    \/ \E i \in 1..NStreams : CreateDone(i)
    \/ \E i \in 1..NStreams : WaitPoll(i)
    \/ \E i \in 1..NStreams : Cancel(i)

SpecPool == Init /\ [][NextPool]_vars

\* NStreams concurrent requests for one file on one client and one data
\* center: five of them fill the pool and the sixth gets a session by
\* forced reuse; the GetFile calls of the first and of the last fail, those
\* of the others are pending, and the cleaner makes its passes (it never
\* finds more than one session to close in a pass)
NextReuse ==
    \/ \E i \in 1..NStreams : Request(i, 1, 1, 2, NoRange, 2)
    \/ \E i \in 1..NStreams : StartStream(i)
    \/ \E i \in 1..NStreams : CreateDone(i)
    \/ \E i \in 1..NStreams : WaitPoll(i)
    \/ \E i \in {1, NStreams} : FetchTransient(i)
    \/ clean_sessions(1, 1)

SpecReuse == Init /\ [][NextReuse]_vars

\* NWear requests, one after the other, for a file of LoadParts chunks on
\* one client and one data center, whose GetFile calls and session creations
\* may fail, while the cooldowns of the sessions pass and the cleaner and
\* the health check of the client's ByteStreamer make their passes
NextWear ==
    \/ \E i \in 1..NWear :
          /\ \A j \in 1..(i - 1) : streams[j].pc = "done"
          /\ Request(i, 1, 1, 2 * LoadParts, NoRange, 2)
    \/ \E i \in 1..NWear : StartStream(i)
    \/ \E i \in 1..NWear : CreateDone(i)
    \/ \E i \in 1..NWear : CreateFail(i, "auth")
    \/ \E i \in 1..NWear : FetchOk(i)
    \/ \E i \in 1..NWear : FetchTransient(i)
    \/ \E i \in 1..NWear : ReplaceDone(i)
    \/ \E i \in 1..NWear : ReplaceFail(i)
    \/ \E i \in 1..NWear : Resume(i)
    \/ \E s \in Sids : CooldownPasses(s)
    \/ clean_sessions(1, 1)
    \/ CloseNext(1)
    \/ _health_check(1)

SpecWear == Init /\ [][NextWear]_vars

\* the same, with the health check making its pass every 600 seconds for
\* as long as the process runs
SpecWearFair ==
    /\ SpecWear
    /\ WF_vars(_health_check(1))
    /\ \A s \in Sids : WF_vars(CooldownPasses(s))

SpecCache == Init /\ [][NextCache]_vars

\* the load balancer under any calls, while NLoad streams of one chunk come,
\* start and are cancelled on any client, and time passes
NextBalancer ==
    \/ GetClient
    \/ \E c \in Clients : MarkUnhealthy(c)
    \/ \E c \in Clients : MarkHealthy(c)
    \/ \E i \in 1..NLoad :
          /\ streams[i].pc = "idle"
          /\ \E c \in Clients : Request(i, c, 1, 2, NoRange, 2)
    \/ \E i \in 1..NLoad : StartStream(i)
    \/ \E i \in 1..NLoad : Cancel(i)
    \/ Tick

SpecBalancer == Init /\ [][NextBalancer]_vars

\* the response times recorded for the clients, MaxPushes in all
NextWindow == \E c \in Clients, rt \in RTs : RecordResponseTime(c, rt)

SpecWindow == Init /\ [][NextWindow]_vars

\* NReq requests from any address for the status document or a file, each
\* with the one before or a burst period after it
NextLimit ==
    \/ \E i \in 1..NReq :
          /\ streams[i].pc = "idle"
          /\ \E xff \in {NoXff} \cup IPs, remote \in IPs, path \in Paths,
                db_id \in Known : Arrive(i, xff, remote, path, db_id)
    \/ Elapse(burst_period)

SpecLimit == Init /\ [][NextLimit]_vars

\* NLoad requests for the status document and for a file of one chunk, the
\* metadata of which the resolver finds or fails to find, on a server whose
\* GetFile may fail; the deadline of a request may expire wherever its
\* handler awaits
NextServe ==
    \/ \E i \in 1..NLoad :
          /\ streams[i].pc = "idle"
          /\ \E path \in Paths, db_id \in Known : Arrive(i, NoXff, 1, path, db_id)
    \/ \E i \in 1..NLoad : ResolveOk(i)
    \/ \E i \in 1..NLoad, e \in ResolverErrors : ResolveFail(i, e)
    \/ \E c \in Clients, db_id \in DbIds : FailureCooldownPasses(c, db_id)
    \/ \E i \in 1..NLoad : Deadline(i)
    \/ \E i \in 1..NLoad, rt \in RTs : Return(i, rt)
    \/ \E i \in 1..NLoad : StartStream(i)
    \/ \E i \in 1..NLoad : CreateDone(i)
    \/ \E i \in 1..NLoad : FetchOk(i)
    \/ \E i \in 1..NLoad : FetchTransient(i)
    \/ \E i \in 1..NLoad : Resume(i)
    \/ \E i \in 1..NLoad : Finalize(i)

SpecServe == Init /\ [][NextServe]_vars

\* NLoad /dl requests, for a file of two chunks and for a file the metadata
\* store does not know, on a server whose resolver and whose GetFile may
\* fail at every call
NextRetry ==
    \/ \E i \in 1..NLoad :
          /\ streams[i].pc = "idle"
          /\ \E db_id \in TwoPartIds \cup NotFoundIds :
                Arrive(i, NoXff, 1, "/dl/", db_id)
    \/ \E i \in 1..NLoad : ResolveOk(i)
    \/ \E i \in 1..NLoad : \E e \in Raises(streams[i].db) : ResolveFail(i, e)
    \/ \E i \in 1..NLoad : Return(i, 1)
    \/ \E i \in 1..NLoad : StartStream(i)
    \/ \E i \in 1..NLoad : CreateDone(i)
    \/ \E i \in 1..NLoad : FetchOk(i)
    \/ \E i \in 1..NLoad : FetchTransient(i)
    \/ \E i \in 1..NLoad : ReplaceDone(i)
    \/ \E i \in 1..NLoad : ReplaceFail(i)
    \/ \E i \in 1..NLoad : Resume(i)

SpecRetry == Init /\ [][NextRetry]_vars

\* the limiter after cleanup_every - 1 requests of keys that have not been
\* heard of for a minute: the purge is due at the next request but one
InitPurge ==
    /\ InitCache /\ InitStreams /\ InitBalancer /\ InitResolver
    /\ request_timestamps = [k \in IPs |-> <<>>]
    /\ cleanup_counter = cleanup_every - 1
    /\ counted = [k \in IPs |-> <<>>]

SpecPurge == InitPurge /\ [][NextLimit]_vars

\* NLoad /dl requests for files the metadata store knows or does not know,
\* on clients that other requests mark healthy and unhealthy
NextResolve ==
    \/ \E i \in 1..NLoad :
          /\ streams[i].pc = "idle"
          /\ \E db_id \in Known \cup NotFoundIds \cup BadHashIds :
                Arrive(i, NoXff, 1, "/dl/", db_id)
    \/ \E i \in 1..NLoad : ResolveOk(i)
    \/ \E i \in 1..NLoad : \E e \in Raises(streams[i].db) : ResolveFail(i, e)
    \/ \E c \in Clients, db_id \in DbIds : FailureCooldownPasses(c, db_id)
    \/ \E c \in Clients : MarkUnhealthy(c)
    \/ \E c \in Clients : MarkHealthy(c)

SpecResolve == Init /\ [][NextResolve]_vars

(***************************************************************************)
(* Claims about the streaming path.                                        *)
(***************************************************************************)
\* the request asked for a range with 0 <= from <= until < size
ValidRange(st) ==
    /\ 0 <= st.from_bytes
    /\ st.from_bytes <= st.asked_until
    /\ st.asked_until < st.file_size

Active(st) ==
    st.pc \in {"create", "wait", "fetch", "replace", "yielded", "abandoned"}

\* C1: for a valid range and with every GetFile succeeding, the chunks a
\* stream has emitted when it ends are exactly body[from..until], of the
\* advertised Content-Length until - from + 1.
C1_RangeExact ==
    \A i \in 1..NStreams :
        LET st == streams[i] IN
        (st.end = "complete" /\ ValidRange(st) /\ ~st.failed)
            => /\ st.out = Bytes(st.from_bytes, st.asked_until)
               /\ Len(st.out) = st.asked_until - st.from_bytes + 1
               /\ st.content_length = st.asked_until - st.from_bytes + 1

\* C2: for a valid range the arguments of yield_file keep the stream
\* contract: aligned offset, first cut in [0, chunk_size), last cut in
\* [1, chunk_size], and part_count >= 1 equal to the number of chunks the
\* range spans, floor(until/chunk_size) - floor(from/chunk_size) + 1.
C2_ArgumentContract ==
    \A i \in 1..NStreams :
        LET st == streams[i] IN
        (st.pc = "prepared" /\ ValidRange(st))
            => /\ st.offset % st.chunk_size = 0
               /\ 0 <= st.first_part_cut /\ st.first_part_cut < st.chunk_size
               /\ 1 <= st.last_part_cut /\ st.last_part_cut <= st.chunk_size
               /\ st.part_count >= 1
               /\ st.part_count = (st.asked_until \div st.chunk_size)
                                  - (st.from_bytes \div st.chunk_size) + 1

\* stream i issues a GetFile in this step
Issues(i) == streams'[i].pc = "fetch" /\ streams'[i] # streams[i]

\* stream i yields a chunk in this step
Yields(i) == streams'[i].pc = "yielded" /\ streams[i].pc = "fetch"

\* C3: every GetFile has an offset that is a multiple of chunk_size and
\* limit chunk_size; the first one of a stream is at the aligned start of the
\* range, a retry repeats the offset of the request that failed, the request
\* for the next part is chunk_size further; and the chunk a stream yields is
\* the one of its last request, so chunks are emitted in the same order.
C3_AlignedIncreasing ==
    [][\A i \in 1..NStreams :
          LET old == streams[i]
              new == streams'[i]
          IN /\ Issues(i) =>
                  /\ new.req.offset % new.chunk_size = 0
                  /\ new.req.limit = new.chunk_size
                  /\ IF old.req = NoReq
                        THEN /\ new.req.offset
                                  = old.from_bytes - (old.from_bytes % old.chunk_size)
                             /\ new.current_part = 1
                     ELSE IF old.pc = "yielded"
                        THEN /\ new.req.offset = old.req.offset + old.chunk_size
                             /\ new.current_part = old.current_part + 1
                     ELSE /\ new.req.offset = old.req.offset
                          /\ new.current_part = old.current_part
             /\ Yields(i) =>
                  /\ new.emitted = old.req.offset
                  /\ old.emitted = NoOffset \/ new.emitted = old.emitted + old.chunk_size
      ]_vars

\* a retry of the request for a later part of a range that starts off a
\* chunk boundary
C3_Witness ==
    \E i \in 1..NStreams :
        /\ streams[i].pc = "fetch"
        /\ streams[i].current_part = 2
        /\ streams[i].attempt = 1
        /\ streams[i].from_bytes % streams[i].chunk_size # 0
        /\ streams[i].req.offset = streams[i].chunk_size

\* C4: WorkLoad[c] is the number of streams on client c that have started
\* and not ended, whatever made the others end; so no counter is negative
\* and a stream gives back exactly the one unit it took.
C4_WorkLoadCountsStreams ==
    \A c \in Clients :
        work_loads[c] = Cardinality({i \in 1..NStreams :
                                        streams[i].client = c /\ Active(streams[i])})

\* two streams of one client have ended, one cancelled and one abandoned by
\* its consumer, while a stream of the other client is running
C4_Witness ==
    \E i, j \in 1..NStreams :
        /\ streams[i].end \in {"cancelled", "closed", "truncated"}
        /\ streams[i].failed
        /\ streams[j].pc = "fetch"
        /\ streams[j].client = streams[i].client
        /\ work_loads[streams[i].client] = 1

\* C5: a request whose resolved range is invalid is answered 416 with
\* Content-Range: bytes */size, and nothing else happens: no stream, no
\* GetFile, no session, no load.
C5_Unsatisfiable ==
    LET st == streams[1] IN
    (st.pc # "idle" /\ (\/ st.asked_until > st.file_size
                        \/ st.from_bytes < 0
                        \/ st.asked_until < st.from_bytes))
        => /\ st.status = 416
           /\ st.content_range = <<"*", st.file_size>>
           /\ st.pc = "done" /\ st.end = "416"
           /\ st.req = NoReq /\ st.out = <<>> /\ st.held = {}
           /\ sessions = <<>>
           /\ \A s \in Sids : ~session_in_use[s]
           /\ \A c \in Clients : work_loads[c] = 0

\* "bytes=2-1" of a file of three bytes has been answered
C5_Witness ==
    /\ streams[1].status = 416
    /\ streams[1].has_range
    /\ streams[1].from_bytes = 2
    /\ streams[1].asked_until = 1
    /\ streams[1].file_size = 3

C7_PoolWithinCap ==
    \A c \in Clients : \A dc \in DCs :
        Len(session_pool[c][dc]) <= max_sessions_per_dc

(***************************************************************************)
(* Claims about the cache (SpecCache).                                     *)
(***************************************************************************)
IsPut == lastOp.op = "put"

IsLookup == lastOp.op \in {"get", "contains"}

\* C8: after every LRUCache operation returns the cache holds at most
\* max_size entries, and while a put runs it holds at most max_size + 1.
C8_SizeBounded ==
    /\ Len(cache) <= max_size
    /\ lastOp.peak <= max_size + 1

\* a put has just pushed the size to max_size + 1 and evicted back to max_size
C8_Witness ==
    /\ IsPut
    /\ lastOp.peak = max_size + 1
    /\ Len(cache) = max_size

\* the step is a put of a key absent from a full cache
PutAbsentIntoFull ==
    /\ lastOp'.op = "put"
    /\ lastOp'.key \notin CacheKeys(cache)
    /\ Len(cache) = max_size

\* C9 as claimed: a put of an absent key into a full cache evicts exactly one
\* entry, the least recently used one among the unexpired entries (stated
\* for a cache that holds an unexpired entry); a put of a present key evicts
\* nothing.
C9_EvictsLruUnexpired ==
    [][ /\ (PutAbsentIntoFull /\ OldestUnexpired(CacheNow, now) # 0) =>
             lastOp'.evicted = {OldestUnexpired(CacheNow, now)}
        /\ (lastOp'.op = "put" /\ lastOp'.key \in CacheKeys(cache)) =>
             lastOp'.evicted = {}
      ]_vars

\* C9 amended: a put of an absent key into a full cache evicts exactly one
\* entry, the least recently used of all entries, expired or not, where a
\* put and a get hit make their key the most recently used; a put of a
\* present key evicts nothing.
C9_EvictsLru ==
    [][ /\ PutAbsentIntoFull =>
             /\ lastOp'.evicted = {recency[1]}
             /\ Cardinality(lastOp'.evicted) = 1
        /\ (lastOp'.op = "put" /\ lastOp'.key \in CacheKeys(cache)) =>
             lastOp'.evicted = {}
        /\ (lastOp'.op = "get" /\ lastOp'.ret # None) =>
             /\ cache'[Len(cache')].k = lastOp'.key
             /\ Without(cache', lastOp'.key) = Without(cache, lastOp'.key)
      ]_vars

\* a put has evicted an entry that was not the first one put: a get hit had
\* refreshed the first
C9_Witness ==
    /\ IsPut
    /\ Cardinality(lastOp.evicted) = 1
    /\ Len(cache) = max_size
    /\ \E k \in lastOp.evicted : k > cache[1].k

\* C10: a lookup hits exactly when the key's latest put is unevicted and its
\* expiry instant (the custom ttl of set when one was given, else the
\* default) has not passed; a get hit returns the value of that put; after a
\* miss the key is in neither the value map nor the expiry index.
C10_LookupFresh ==
    [][ lastOp'.op \in {"get", "contains"} =>
          LET key == lastOp'.key
              put == putRec[key]
              hit == lastOp'.ret # None
              fresh == put # NoPut /\ now <= put.exp
          IN /\ hit <=> fresh
             /\ (hit /\ lastOp'.op = "get") => lastOp'.ret = put.val
             /\ ~hit => /\ key \notin CacheKeys(cache')
                        /\ expiry'[key] = NoExpiry
      ]_vars

\* a get has found its key expired and removed it
C10_Witness ==
    /\ lastOp.op = "get"
    /\ lastOp.ret = None
    /\ lastOp.evicted = {lastOp.key}


(***************************************************************************)
(* Claims about the load balancer.                                         *)
(***************************************************************************)
\* get_client can return client c now
Pickable(c) == ENABLED (GetClient /\ lastPick'.ret = c)

\* C11: get_client never returns a client whose health flag is false while
\* some client's flag is true; with every flag false it still returns a
\* configured client; and a client is eligible by its current flag alone:
\* one that was marked unhealthy and is healthy again can be returned
\* whenever the zero-load preference does not choose among others.
C11_UnhealthyExcluded ==
    /\ lastPick.ret # 0 =>
          /\ lastPick.ret \in Clients
          /\ (\E c \in Clients : lastPick.health[c]) => lastPick.health[lastPick.ret]
    /\ \A c \in Clients :
          /\ health_checks[c]
          /\ LET Z == {d \in Clients : /\ health_checks[d]
                                       /\ work_loads[d] = 0
                                       /\ now - last_used_time[d] > cooldown_period}
             IN Z = {} \/ c \in Z
          => Pickable(c)

C11_Witness ==
    /\ lastPick.ret \in was_unhealthy
    /\ lastPick.health[lastPick.ret]
    /\ \E d \in Clients : ~lastPick.health[d]

\* C12: whenever some healthy client has no load and was last used more
\* than cooldown_period ago, get_client returns such a client, never one
\* with a positive load; the only such client if there is only one.
C12_ZeroLoadPreferred ==
    lastPick.ret # 0 =>
        LET Z == {c \in Clients : /\ lastPick.health[c]
                                  /\ lastPick.wl[c] = 0
                                  /\ now - lastPick.last[c] > cooldown_period}
        IN Z # {} => /\ lastPick.ret \in Z
                     /\ lastPick.wl[lastPick.ret] = 0
                     /\ Cardinality(Z) = 1 => Z = {lastPick.ret}

C12_Witness ==
    /\ lastPick.ret # 0
    /\ lastPick.wl[lastPick.ret] = 0
    /\ now - lastPick.last[lastPick.ret] > cooldown_period
    /\ \E d \in Clients : lastPick.health[d] /\ lastPick.wl[d] > 0

\* the last n elements of a sequence
LastOf(seq, n) ==
    SubSeq(seq, IF Len(seq) > n THEN Len(seq) - n + 1 ELSE 1, Len(seq))

\* C13: after any sequence of record_response_time calls the window of a
\* client holds at most 10 response times, the most recent ones in arrival
\* order: the 11th push drops the oldest.
C13_WindowKeepsLatest ==
    \A c \in Clients :
        /\ Len(response_times[c]) <= maxlen
        /\ response_times[c] = LastOf(pushed[c], maxlen)

C13_Witness ==
    \E c \in Clients :
        /\ Len(pushed[c]) > maxlen
        /\ pushed[c][1] # pushed[c][2]
        /\ response_times[c][1] = pushed[c][2]

(***************************************************************************)
(* Claims about the middleware chain.                                      *)
(***************************************************************************)
\* request i arrives in this step
Arrives(i) == streams[i].pc = "idle" /\ streams'[i].pc # "idle"

\* the requests of key k the limiter has judged in the last window seconds
Judged(k, window) == SelectSeq(counted[k], LAMBDA x : x.at > now - window)

C16_BypassLeavesLimiter ==
    [][\A i \in 1..NStreams :
          /\ Arrives(i)
          /\ streams'[i].path = "/status" \/ streams'[i].key \in whitelist
          => /\ streams'[i].invoked
             /\ streams'[i].resp.status # 429
             /\ UNCHANGED <<request_timestamps, cleanup_counter, counted>>
      ]_vars

\* a key that has used up its rate and its burst, so that its next request
\* for a file would be rejected, was given the status document
C16_Witness ==
    \E i \in 2..NStreams :
        /\ streams[i].path = "/status"
        /\ streams[i].resp.status = 200
        /\ \A j \in 1..(i - 1) : /\ streams[j].key = streams[i].key
                                  /\ streams[j].path = "/dl/"
        /\ Len(request_timestamps[streams[i].key]) = i - 1
        /\ is_rate_limited([ts |-> request_timestamps, counter |-> cleanup_counter],
                           streams[i].key).ret

(***************************************************************************)
(* Claims about deadlines and errors.                                      *)
(***************************************************************************)
\* the status line the HTTP client of a request has received: that of the
\* response whose headers media_streamer has sent, else that of the response
\* returned through the middleware chain
ClientStatus(st) == IF st.status # 0 THEN st.status ELSE st.resp.status

\* C17 as stated: a request whose deadline expired before its handler had
\* finished is answered 504, and a stream cancelled this way has given back
\* its session and its unit of WorkLoad.
C17_DeadlineAnswers504 ==
    \A i \in 1..NStreams :
        LET st == streams[i] IN
        st.timed_out =>
            /\ ClientStatus(st) = 504
            /\ st.pc = "done" =>
                  /\ \A s \in 1..Len(sessions) : s \in st.held => ~session_in_use[s]
                  /\ work_loads[st.client] =
                        Cardinality({j \in 1..NStreams :
                                        /\ streams[j].client = st.client
                                        /\ Active(streams[j])})

\* the exceptions no except clause of stream_handler names
Unexpected(e) == e.type \in {"RuntimeError", "ValueError", "UnboundLocalError"}

\* C18 as stated: an unexpected exception raised while a request is handled
\* is answered 500 with the fixed message of the error map, whatever the
\* exception says.
C18_UnexpectedIsFixed500 ==
    \A i \in 1..NStreams :
        LET st == streams[i] IN
        (st.returned /\ Unexpected(st.exc))
            => st.resp = Response(500, "An unexpected error occurred. Please try again later.")

\* the GetFile of the first part of stream i fails for the third time in
\* this step
FirstPartGivenUp(i) ==
    /\ streams[i].pc = "fetch"
    /\ streams[i].current_part = 1
    /\ streams[i].attempt = GetFileAttempts - 1
    /\ \/ streams'[i].pc = "replace"
       \/ streams'[i].pc = "done" /\ streams'[i].end = "error"

\* C19 as stated: when the GetFile of the first part has failed with a
\* transient error three times, the HTTP client is answered 503, the session
\* has one more socket error and, the stream over, WorkLoad is that of the
\* other streams.
C19_FirstPartFailureIs503 ==
    [][\A i \in 1..NStreams :
          FirstPartGivenUp(i) =>
             LET s == streams[i].media_session
                 c == streams[i].client
             IN /\ ClientStatus(streams'[i]) = 503
                /\ \/ socket_errors'[s] = socket_errors[s] + 1
                   \/ socket_error_cooldown'[s] = SocketCooldownSecs
                /\ streams'[i].pc = "done" => work_loads'[c] = work_loads[c] - 1
      ]_vars

\* C20 as stated: a request whose resolve found the file in an unexpired
\* failure cooldown is answered 503.
C20_CooldownIs503 ==
    \A i \in 1..NStreams :
        LET st == streams[i] IN
        (st.cooled /\ st.returned) => ClientStatus(st) = 503


(***************************************************************************)
(* Claims about metadata resolution.                                       *)
(***************************************************************************)
\* C21 as stated: a /dl request for an id the metadata store does not know
\* is answered 404 and one for an id with an invalid hash 403, whatever the
\* health flags are and whether or not the id was requested before.
C21_UnknownIs404 ==
    \A i \in 1..NStreams :
        LET st == streams[i] IN
        (st.returned /\ st.path = "/dl/" /\ ~st.timed_out)
            => /\ st.db \in NotFoundIds => ClientStatus(st) = 404
               /\ st.db \in BadHashIds => ClientStatus(st) = 403


(***************************************************************************)
(* Claims about the sessions and counters of a stream.                     *)
(***************************************************************************)
\* the generator of stream i ends in this step
Ends(i) == Active(streams[i]) /\ streams'[i].pc = "done"

\* no generator is running
Quiet(ss) == \A j \in 1..NStreams : ~Active(ss[j])

\* C22 as stated: all GetFile calls of a stream go to one session, the
\* session is released when the stream ends, and with every stream over no
\* session is in use.
C22_OneSessionPerStream ==
    [][/\ \A i \in 1..NStreams :
             /\ Issues(i) /\ streams[i].req # NoReq
                   => streams'[i].req.session = streams[i].req.session
             /\ Ends(i) /\ streams[i].media_session # NoSession
                   => ~session_in_use'[streams[i].media_session]
       /\ Quiet(streams') => \A s \in Sids : ~session_in_use'[s]
      ]_vars

\* C22: every GetFile of a stream goes to the session the stream acquired
\* last; it goes to another session than the GetFile before only as a retry
\* for the first part, after a transient failure; the session a stream has
\* when it ends, for whatever reason, is released then; and with every
\* stream over no session is in use.
C22_SessionReleasedAtEnd ==
    [][/\ \A i \in 1..NStreams :
             /\ Issues(i) =>
                   /\ streams'[i].req.session = streams'[i].media_session
                   /\ streams'[i].held = {streams'[i].media_session}
                   /\ (streams[i].req # NoReq
                          /\ streams'[i].req.session # streams[i].req.session)
                        => /\ streams'[i].current_part = 1
                           /\ streams'[i].site = "retry"
                           /\ streams'[i].failed
                           /\ streams'[i].req.offset = streams[i].req.offset
             /\ Ends(i) /\ streams[i].media_session # NoSession
                   => ~session_in_use'[streams[i].media_session]
       /\ Quiet(streams') => \A s \in Sids : ~session_in_use'[s]
      ]_vars

\* a stream retries its first part on a session other than the one it gave
\* up, which has reached max_session_retries and is free
C22_Witness ==
    \E i \in 1..NStreams : \E s \in 1..Len(sessions) :
        /\ streams[i].pc = "fetch"
        /\ streams[i].site = "retry"
        /\ streams[i].current_part = 1
        /\ s # streams[i].media_session
        /\ session_retry_count[s] >= max_session_retries
        /\ ~session_in_use[s]
        /\ session_retry_count[streams[i].media_session] < max_session_retries


\* C23 as stated: every call of get_client, the degraded one with no healthy
\* client included, sets last_used_time of the client it returns to the time
\* of the call, and of no other client.
C23_EveryPickStamped ==
    lastPick.ret # 0 =>
        \A c \in Clients :
            last_used_time[c] = IF c = lastPick.ret THEN now ELSE lastPick.last[c]

\* C23: a call of get_client that finds a healthy client returns by the
\* zero-load or the weighted pick and sets last_used_time of the client it
\* returns to the time of the call; the degraded call, with no healthy
\* client, returns the first client and sets nothing; no call changes
\* last_used_time of another client.
C23_HealthyPickStamped ==
    lastPick.ret # 0 =>
        IF \E c \in Clients : lastPick.health[c]
        THEN \A c \in Clients :
                last_used_time[c] = IF c = lastPick.ret THEN now
                                    ELSE lastPick.last[c]
        ELSE /\ lastPick.ret = FirstClient
             /\ last_used_time = lastPick.last

\* a degraded call has returned a client that was used before, and another
\* client was used since
C23_Witness ==
    /\ lastPick.ret # 0
    /\ \A c \in Clients : ~lastPick.health[c]
    /\ last_used_time[lastPick.ret] < now
    /\ last_used_time[lastPick.ret] > Unused
    /\ \E d \in Clients : last_used_time[d] > last_used_time[lastPick.ret]


(***************************************************************************)
(* Claims about what a request tells the load balancer.                    *)
(***************************************************************************)
\* media_streamer returns the response of stream i in this step
Returns(i) == /\ ~streams[i].returned /\ streams'[i].returned
              /\ ~streams'[i].timed_out /\ streams'[i].exc = NoExc
              /\ streams[i].status \in {200, 206}

\* stream i has emitted all the bytes it announced and its generator is over
Completed(st) ==
    st.pc = "done" /\ st.end = "complete" /\ Len(st.out) = st.content_length

\* the resolution of request i on its client fails for good in this step
ResolveGivenUp(i) ==
    /\ streams[i].pc = "resolving"
    /\ streams[i].attempt = 2
    /\ \/ ~streams[i].alt /\ streams'[i].alt
       \/ /\ streams'[i].exc # NoExc
          /\ ~streams'[i].timed_out

\* C24 as stated: a response time is pushed for client c only when a stream
\* served by c has emitted all its parts.
C24_PushOnlyAfterCompletion ==
    [][\A c \in Clients :
          pushed'[c] # pushed[c]
          => \E i \in 1..NStreams : /\ Returns(i)
                                     /\ streams[i].client = c
                                     /\ Completed(streams[i])
      ]_vars

\* C25 as stated: the health flag of c becomes false when a resolution on c
\* fails, on the first client and on the retry client alike, and at no other
\* time; it becomes true when a stream served by c has emitted all its
\* parts, and at no other time.
C25_HealthFlagFlips ==
    [][\A c \in Clients :
          /\ (\E i \in 1..NStreams : ResolveGivenUp(i) /\ streams[i].client = c)
                => ~health_checks'[c]
          /\ health_checks[c] /\ ~health_checks'[c]
                => \E i \in 1..NStreams :
                      \/ ResolveGivenUp(i) /\ streams[i].client = c
                      \/ Arrives(i) /\ streams'[i].cooled
          /\ ~health_checks[c] /\ health_checks'[c]
                => \E i \in 1..NStreams : /\ Returns(i)
                                           /\ streams[i].client = c
                                           /\ Completed(streams[i])
      ]_vars


ThirdFailureOfLaterPart(i) ==
    /\ streams[i].pc = "fetch"
    /\ streams[i].current_part > 1
    /\ streams[i].attempt = GetFileAttempts - 1
    /\ FetchTransient(i)

\* C27: when the GetFile of a part after the first has failed three times
\* the generator ends without an exception: what it has emitted stays, a
\* prefix of the range in order and shorter than the Content-Length sent;
\* its session is released, the load of its client goes down by one, and it
\* issues no GetFile any more.
C27_TruncatesCleanly ==
    [][\A i \in 1..NStreams :
          LET old == streams[i]
              new == streams'[i]
          IN /\ ThirdFailureOfLaterPart(i) =>
                  /\ new.pc = "done"
                  /\ new.end = "truncated"
                  /\ new.exc = NoExc
                  /\ new.out = old.out
                  /\ new.out # <<>>
                  /\ new.out = Bytes(old.from_bytes,
                                     old.from_bytes + Len(old.out) - 1)
                  /\ Len(new.out) < new.content_length
                  /\ new.status = old.status
                  /\ new.req = NoReq
                  /\ ~session_in_use'[old.media_session]
                  /\ work_loads' = [work_loads EXCEPT ![old.client] = @ - 1]
             /\ old.end = "truncated" => new = old
      ]_vars

\* a stream was truncated after its first chunk, and its session is free
C27_Witness ==
    \E i \in 1..NStreams :
        /\ streams[i].end = "truncated"
        /\ streams[i].out = Bytes(0, 1)
        /\ streams[i].content_length = 4
        /\ \A s \in Sids : ~session_in_use[s]


\* the larger of two numbers
Max(a, b) == IF a > b THEN a ELSE b

\* C28: retries are bounded.  Every GetFile of a stream is the first of its
\* part (attempt 0, of the part after the one before) or repeats the part
\* with the attempt counted one up, to 2 at most, so that a part is asked
\* for at most three times and the generator makes at most
\* 3 * max(1, part_count) GetFile calls; every call of the metadata resolver
\* is one of at most three of a resolve, a request makes at most six, and
\* none once its resolution is over.
C28_RetriesBounded ==
    [][\A i \in 1..NStreams :
          LET old == streams[i]
              new == streams'[i]
          IN /\ Issues(i) =>
                  /\ new.gets = old.gets + 1
                  /\ new.attempt <= GetFileAttempts - 1
                  /\ new.current_part <= Max(1, new.part_count)
                  /\ \/ /\ new.current_part = old.current_part
                        /\ new.attempt = old.attempt + 1
                        /\ new.req.offset = old.req.offset
                     \/ /\ new.current_part = old.current_part + 1
                        /\ new.attempt = 0
                  /\ new.gets <= GetFileAttempts * (new.current_part - 1)
                                    + new.attempt + 1
                  /\ new.gets <= GetFileAttempts * Max(1, new.part_count)
             /\ (~Issues(i) /\ Active(new)) => new.gets = old.gets
             /\ new.calls > old.calls =>
                  /\ new.calls = old.calls + 1
                  /\ new.pc = "resolving"
                  /\ new.attempt <= 2
                  /\ new.calls \in IF new.alt
                                   THEN {new.attempt + 1, new.attempt + 4}
                                   ELSE {new.attempt + 1}
                  /\ new.calls <= 6
             /\ (old.pc \notin {"idle", "resolving"}) => new.calls = 0
      ]_vars

\* one request is at its sixth call of the resolver, the third on its
\* second client, while the stream of another asks for its second and last
\* part the third time, with its sixth GetFile
C28_Witness ==
    \E i, j \in 1..NStreams :
        /\ streams[i].pc = "resolving"
        /\ streams[i].alt
        /\ streams[i].calls = 6
        /\ streams[j].pc = "fetch"
        /\ streams[j].part_count = 2
        /\ streams[j].current_part = 2
        /\ streams[j].attempt = GetFileAttempts - 1
        /\ streams[j].gets = GetFileAttempts * streams[j].part_count


\* C29 as stated: every transient failure of a GetFile adds one to the
\* retry_count and one to the socket_errors of the session it was sent on
\* (socket_errors starting again from 0 when the threshold is reached), at
\* each of the three attempts and for every part.
C29_EveryFailureCounted ==
    [][\A i \in 1..NStreams :
          (streams[i].pc = "fetch" /\ FetchTransient(i))
          => LET s == streams[i].media_session IN
             /\ session_retry_count'[s] = session_retry_count[s] + 1
             /\ \/ socket_errors'[s] = socket_errors[s] + 1
                \/ /\ socket_errors[s] + 1 >= socket_error_threshold
                   /\ socket_errors'[s] = 0
      ]_vars


\* the resolution of request i fails for good on its first client in this
\* step
FirstClientGivenUp(i) ==
    /\ streams[i].pc = "resolving"
    /\ ~streams[i].alt
    /\ streams[i].attempt = 2
    /\ \E e \in Raises(streams[i].db) : ResolveFail(i, e)

\* C30 as stated: when the resolution fails on the first client of a
\* request, that client is marked unhealthy and the resolution goes on, once,
\* on a client with another id, whatever the health of the clients; the
\* request does not go on without metadata.
C30_RetriesOnAnotherClient ==
    [][\A i \in 1..NStreams :
          FirstClientGivenUp(i)
          => /\ ~health_checks'[streams[i].client]
             /\ streams'[i].alt
             /\ streams'[i].client # streams[i].client
             /\ streams'[i].exc.type # "UnboundLocalError"
      ]_vars


(***************************************************************************)
(* Claims about the session pool under wear: cooldown, cleaner and health  *)
(* check.                                                                  *)
(***************************************************************************)
\* stream i calls get_session_from_pool in this step: when its generator
\* starts, or after a failure that has used up the retries of its session
Acquires(i) ==
    \/ streams[i].pc = "prepared" /\ streams'[i] # streams[i]
    \/ /\ streams[i].pc \in {"fetch", "replace"}
       /\ Active(streams'[i])
       /\ streams'[i].held # streams[i].held

\* the sessions of the pool of client c and data center dc that are not in
\* use, have retries left and are in no cooldown that has not passed
Rested(c, dc) ==
    {x \in Sids : /\ \E k \in 1..Len(session_pool[c][dc]) : session_pool[c][dc][k] = x
                  /\ ~session_in_use[x]
                  /\ session_retry_count[x] < max_session_retries
                  /\ socket_error_cooldown[x] \in {NoCooldown, Passed}}

\* C31 as stated: get_session_from_pool hands out a session of the pool
\* whenever one is not in use, has retries left and is in no cooldown or in
\* one that has passed, and goes on to create a session only when there is
\* none and the pool is under its cap.
C31_RestedSessionReused ==
    [][\A i \in 1..NStreams :
          Acquires(i)
          => LET c == streams[i].client
                 dc == streams[i].dc
                 new == streams'[i]
             IN /\ Rested(c, dc) # {} =>
                     /\ new.pc = "fetch"
                     /\ new.media_session \in Rested(c, dc)
                     /\ session_in_use'[new.media_session]
                /\ new.pc = "create" =>
                     /\ Rested(c, dc) = {}
                     /\ Len(session_pool'[c][dc]) < max_sessions_per_dc
      ]_vars


\* stream i gets session s from get_session_from_pool in this step, and not
\* by a forced reuse
HandedOut(i, s) ==
    /\ s \in streams'[i].held
    /\ s \notin streams[i].held
    /\ s \notin forced' \ forced

\* session s is in a pool
Pooled(pool, s) ==
    \E c \in Clients, dc \in DCs : \E k \in 1..Len(pool[c][dc]) : pool[c][dc][k] = s

C33_SocketErrorsBelowThreshold ==
    /\ [](\A s \in Sids : socket_errors[s] < socket_error_threshold)
    /\ [][\A s \in Sids :
             /\ socket_errors'[s] > socket_errors[s] =>
                   /\ socket_errors'[s] = socket_errors[s] + 1
                   /\ \/ socket_error_cooldown'[s] # SocketCooldownSecs
                      \/ socket_error_cooldown[s] = SocketCooldownSecs
                   /\ \E i \in 1..NStreams :
                         /\ streams[i].media_session = s
                         /\ streams[i].pc = "fetch"
                         /\ streams'[i].failed
                         /\ streams'[i].pc # "replace"
             /\ socket_errors'[s] < socket_errors[s] =>
                   \/ /\ socket_errors[s] = socket_error_threshold - 1
                      /\ socket_errors'[s] = 0
                      /\ socket_error_cooldown'[s] = SocketCooldownSecs
                      /\ \E i \in 1..NStreams :
                            /\ streams[i].media_session = s
                            /\ streams[i].pc = "fetch"
                            /\ streams'[i].pc = "replace"
                   \/ /\ socket_errors'[s] = socket_errors[s] - 1
                      /\ streams' = streams
                      /\ session_pool' = session_pool
                   \/ /\ socket_errors'[s] = 0
                      /\ streams' = streams
                      /\ Pooled(session_pool, s) /\ ~Pooled(session_pool', s)
             /\ \A i \in 1..NStreams :
                   (streams[i].pc = "replace" /\ streams'[i] # streams[i]
                       /\ streams[i].media_session = s)
                   => LET c == streams[i].client
                          dc == sessions[s].dc
                      IN \/ session_pool'[c][dc] = session_pool[c][dc]
                         \/ /\ session_pool'[c][dc]
                                  = Append(session_pool[c][dc], Len(sessions'))
                            /\ Len(sessions') = Len(sessions) + 1
                            /\ sessions'[Len(sessions')] = [client |-> c, dc |-> dc]
         ]_vars

\* a fifth socket error has just put the session of a stream in cooldown,
\* with its count back at 0 and the replacement being created
C33_Witness ==
    \E i \in 1..NStreams :
        LET s == streams[i].media_session IN
        /\ streams[i].pc = "replace"
        /\ socket_errors[s] = 0
        /\ socket_error_cooldown[s] = SocketCooldownSecs
        /\ session_in_use[s]


\* C34 as stated: the cleaner takes out of the pool only sessions with
\* retry_count >= 3 or socket_errors >= 5 that no active stream holds,
\* whatever the interleaving with acquires, releases and forced reuse, and
\* deletes their entries in the four tracking dicts.
C34_CleanerSparesHeldSessions ==
    [][\A s \in Sids :
          (Pooled(session_pool, s) /\ ~Pooled(session_pool', s))
          => /\ \/ session_retry_count[s] >= max_session_retries
                \/ socket_errors[s] >= socket_error_threshold
             /\ \A i \in 1..NStreams :
                   Active(streams[i]) => s \notin streams[i].held
             /\ ~session_in_use'[s]
             /\ session_retry_count'[s] = 0
             /\ socket_errors'[s] = 0
             /\ socket_error_cooldown'[s] = NoCooldown
      ]_vars


\* C35 as stated: a pool that held a session before the cleaner closed one
\* of its sessions holds a session afterwards, and so at the end of a pass.
C35_CleanerLeavesOneSession ==
    [][\A c \in Clients : \A dc \in DCs :
          Len(session_pool'[c][dc]) < Len(session_pool[c][dc])
          => (closing'[c] = <<>> => session_pool'[c][dc] # <<>>)
      ]_vars


(***************************************************************************)
(* Claims about the metadata a request streams with.                       *)
(***************************************************************************)
\* C36 as stated: the file handle a stream of a /dl request passes to
\* GetFile was decoded from the handle of the client the stream runs on,
\* also when the metadata came from file_info_cache.
C36_HandleOfServingClient ==
    \A i \in 1..NStreams :
        (streams[i].invoked /\ streams[i].pc = "fetch")
            => streams[i].handle = streams[i].client


(***************************************************************************)
(* Requests that keep arriving.  A request whose response has been         *)
(* returned leaves, and the next one takes its place; what the model       *)
(* remembers of the response times recorded starts anew.                   *)
(***************************************************************************)
NHeal == 1      \* /dl requests in flight at a time in SpecHeal

Depart(i) ==
    /\ streams[i].returned
    /\ streams[i].pc \in {"done"}
    /\ streams' = [streams EXCEPT ![i] = IdleStream]
    /\ pushed' = [c \in Clients |-> <<>>]
    /\ UNCHANGED <<cacheVars, poolVars, work_loads, health_checks,
                   last_used_time, response_times, was_unhealthy, lastPick,
                   limiterVars, resolverVars>>

\* a /dl request for a known file that the rate limiter admits (the limiter
\* takes no part here: each request has an address of its own): the timeout
\* middleware starts its deadline and stream_handler runs to its first await
ArriveHeal(i) ==
    /\ streams[i].pc = "idle"
    /\ LET st == [streams[i] EXCEPT !.key = 1, !.path = "/dl/", !.db = 1,
                                    !.deadline = timeout_duration("/dl/"),
                                    !.invoked = TRUE]
       IN \E W2 \in stream_handler(World(st)) : Put(i, W2)
    /\ UNCHANGED limiterVars

\* the resolver fails as long as no client has been marked unhealthy, and
\* never after; no GetFile fails
ResolveFailHeal(i) ==
    /\ was_unhealthy = {}
    /\ ResolveFail(i, [type |-> "ConnectionError", msg |-> "payload 1"])

NextHeal ==
    \/ \E i \in 1..NHeal : ArriveHeal(i)
    \/ \E i \in 1..NHeal : ResolveOk(i)
    \/ \E i \in 1..NHeal : ResolveFailHeal(i)
    \/ \E c \in Clients, db_id \in DbIds : FailureCooldownPasses(c, db_id)
    \/ \E i \in 1..NHeal : StartStream(i)
    \/ \E i \in 1..NHeal : CreateDone(i)
    \/ \E i \in 1..NHeal : FetchOk(i)
    \/ \E i \in 1..NHeal : Resume(i)
    \/ \E i \in 1..NHeal : Return(i, 1)
    \/ \E i \in 1..NHeal : Depart(i)
    \/ Elapse(cooldown_period + 1)

\* requests keep arriving and every await of a request returns: no request
\* stays for ever where it waits for its arrival, its metadata, its
\* consumer, its session, its GetFile or the write of its chunk, its
\* response is returned and it leaves
FairHeal ==
    \A i \in 1..NHeal :
        /\ WF_vars(CreateDone(i))
        /\ WF_vars(Return(i, 1))
        /\ WF_vars(Depart(i))
        /\ \A p \in {"idle", "resolving", "prepared", "fetch", "yielded"} :
              []<>(streams[i].pc # p)

SpecHeal == Init /\ [][NextHeal]_vars /\ FairHeal

\* C37 as stated: while requests keep arriving and every resolution and
\* every stream after the failure succeeds, a client whose health flag was
\* set to false is eventually selected again and eventually has its health
\* flag true again.
C37_UnhealthyClientComesBack ==
    \A c \in Clients :
        /\ ~health_checks[c] ~> health_checks[c]
        /\ ~health_checks[c] ~> (lastPick.ret = c)

\* C38 as stated: whatever the interleaving of the resolves of one id on one
\* streamer, the id is never at once in cached_file_ids and in a failure
\* cooldown that has not expired (so a resolve that finds the id cached
\* returns it and does not fail as unavailable).
C38_CachedNeverCoolingDown ==
    \A c \in Clients, db_id \in DbIds :
        ~(/\ db_id \in cached_file_ids[c]
          /\ db_id \in failed_file_ids[c]
          /\ failure_cooldown[c][db_id] = cooldown_time)

\* C39 as stated: every /dl response with status 200 or 206 describes a
\* non-empty range inside the file, 0 <= from <= until <= size - 1 in its
\* Content-Range and a Content-Length of at least 1; in particular a request
\* whose range starts at or after the end of the file is answered 416.
C39_ServedRangeNonEmpty ==
    \A i \in 1..NStreams :
        LET st == streams[i] IN
        st.pc # "idle" =>
            /\ st.status \in {200, 206} =>
                  /\ Len(st.content_range) = 3
                  /\ 0 <= st.content_range[1]
                  /\ st.content_range[1] <= st.content_range[2]
                  /\ st.content_range[2] <= st.content_range[3] - 1
                  /\ st.content_range[3] = st.file_size
                  /\ st.content_length >= 1
            /\ st.from_bytes >= st.file_size => st.status = 416

(***************************************************************************)
(* The cache of initial ranges.  file_response_cache is the LRUCache       *)
(* <<cache, expiry>>; the value under init_key(db_id) is the Snapshot of   *)
(* the response cached for the file.                                       *)
(***************************************************************************)
NInit == 2      \* /dl requests of one run of SpecInit

\* the Range headers of SpecInit: bytes=0-, bytes=0-0, bytes=0-1, bytes=1-1
InitHeaders ==
    {[has |-> TRUE, from |-> 0, until |-> u] : u \in {NoUntil, 0, 1}}
        \cup {[has |-> TRUE, from |-> 1, until |-> 1]}

\* a /dl request with a Range header that the rate limiter admits (the
\* limiter takes no part here): the timeout middleware starts its deadline
\* and stream_handler runs to its first await
ArriveRange(i, hdr, db_id) ==
    /\ streams[i].pc = "idle"
    /\ IF i = 1 THEN TRUE ELSE streams[i - 1].pc # "idle"
    /\ LET st == [streams[i] EXCEPT !.key = 1, !.path = "/dl/", !.db = db_id,
                                    !.range = hdr,
                                    !.deadline = timeout_duration("/dl/"),
                                    !.invoked = TRUE]
       IN \E W2 \in stream_handler(World(st)) : Put(i, W2)
    /\ UNCHANGED limiterVars

\* NInit /dl requests for ranges of a file of one chunk, on a server whose
\* GetFile may fail
NextInit ==
    \/ \E i \in 1..NInit, hdr \in InitHeaders : ArriveRange(i, hdr, 1)
    \/ \E i \in 1..NInit : ResolveOk(i)
    \/ \E i \in 1..NInit : StartStream(i)
    \/ \E i \in 1..NInit : CreateDone(i)
    \/ \E i \in 1..NInit : FetchOk(i)
    \/ \E i \in 1..NInit : FetchTransient(i)
    \/ \E i \in 1..NInit : Resume(i)
    \/ \E i \in 1..NInit : Return(i, 1)

SpecInit == Init /\ [][NextInit]_vars

\* the range a Range header asks of a file of file_size bytes
AskedRange(hdr, file_size) ==
    StreamArgs(ResolveRange(hdr, file_size), file_size, 1)

\* request i is answered from file_response_cache in this step
Hit(i) == streams[i].pc = "idle" /\ streams'[i].end = "cached"

\* the entry of the file of request i is written in this step
Writes(i) ==
    /\ ~streams[i].returned /\ streams'[i].returned
    /\ streams[i].pc = "done"
    /\ streams[i].end # "416"
    /\ <<cache, expiry>> # <<cache', expiry'>>

\* C40 as stated: a /dl response served from the cache of initial ranges
\* has an empty body and the Content-Range and Content-Length of the range
\* its request asked for; the hit selects no client and issues no upstream
\* call; and the entry is only written by a request whose Range starts at
\* byte 0, whose length is below 1 MiB and whose stream completed.
C40_InitialRangeCache ==
    [][\A i \in 1..NInit :
          /\ Hit(i) =>
                LET st == streams'[i]
                    a == AskedRange(st.range, file_size_of(st.db))
                IN /\ st.out = <<>>
                   /\ st.content_range =
                         <<a.from_bytes, a.until_bytes, file_size_of(st.db)>>
                   /\ st.content_length = a.req_length
                   /\ st.client = 0 /\ st.gets = 0 /\ st.calls = 0
                   /\ UNCHANGED <<balancerVars, work_loads, poolVars,
                                  resolverVars>>
          /\ Writes(i) =>
                /\ streams[i].range.has /\ streams[i].range.from = 0
                /\ streams[i].content_length < init_limit
                /\ streams[i].end = "complete"]_vars
=============================================================================
